---------------------------- MODULE Spec2Model ----------------------------
(***************************************************************************)
(* Model of the Woolworths catalogue crawler, src/lib/scraper_woolworths.py *)
(*                                                                         *)
(* The state is one process at a time (a "run" of main) plus the two       *)
(* things that outlive a run: the configuration file holding the resume    *)
(* checkpoint, and the rows appended to the output file.  A run that has   *)
(* ended (normally, by an uncaught exception or by SIGINT) can be followed *)
(* by the next invocation, which reads the checkpoint back at import.      *)
(*                                                                         *)
(* Modelling decisions:                                                    *)
(*  - the configuration file is assumed writable (it was read at import);  *)
(*    uncaught exceptions come from the browsing session and from the      *)
(*    output writer;                                                       *)
(*  - SIGINT is delivered between two statements of the main thread, so    *)
(*    persist_resume and the final reset are modelled statement by         *)
(*    statement; the handler itself runs to its sys.exit(1);               *)
(*  - the site (category menu, page counts) is fixed for a behaviour; the  *)
(*    tiles of a page and the content of a product page are drawn when     *)
(*    they are read;                                                       *)
(*  - a browsing session is live or dead (its browser has crashed); every  *)
(*    command on a dead session raises, a live one can fail to navigate;   *)
(*    a session is gone after quit, whether quit raises or not;            *)
(*  - each output file is kept as its number of header rows and the set of *)
(*    rows appended to it; the primary file can exist without a header;    *)
(*  - texts are sequences of one-character strings, "" is << >>; category  *)
(*    names are atoms (TLA+ strings).                                      *)
(*                                                                         *)
(* Spec is the crawl over successive invocations with the detail fetch     *)
(* switched off and the primary output file free; SpecDetails is one       *)
(* invocation with the detail fetch switched on; SpecWriter is one         *)
(* invocation whose primary output file may be locked; SpecFilter is       *)
(* filter_for_resume on its own, SpecNormalize is normalize_best_price on  *)
(* its own and SpecIngredients is parse_ingredients_from_text on its own;  *)
(* SpecLive is one invocation under the assumption that the process keeps  *)
(* taking steps; SpecVisit is one invocation in which the tiles read and   *)
(* the rows written by each page visit are kept as history; SpecFetch is   *)
(* fetch_details_for_link called a few times in a row; SpecPages is        *)
(* open_category_page and get_total_pages on their own, SpecNutrition the  *)
(* nutrition strategies of the detail fetch and SpecLaunch the session     *)
(* launch of edge_driver.                                                  *)
(***************************************************************************)
EXTENDS Integers, Sequences, FiniteSets, TLC

(***************************************************************************)
(* Bounds of the model.                                                    *)
(***************************************************************************)
MaxCats == 2
MaxPages == 2
MaxTiles == 2
MaxRuns == 2
MaxFilterLen == 3
RESTART_EVERY_PAGES == 2
NUT_RETRIES == 2

CatNames == {"A", "B", "C"}
NoCategory == "null"
GoneCategory == "Gone"

HrefOf(n) == <<"/shop/browse/", n>>

Category(n) == [name |-> n, href |-> HrefOf(n)]

Nowhere == << >>

RECURSIVE SeqsUpTo(_, _)
SeqsUpTo(S, n) ==
    IF n = 0 THEN {<< >>}
    ELSE LET shorter == SeqsUpTo(S, n - 1)
         IN  shorter \cup {Append(s, x) : s \in {t \in shorter : Len(t) = n - 1}, x \in S}

Range(s) == {s[i] : i \in 1..Len(s)}

VARIABLES
    site,                 \* the category menu of the site, in order
    sitePages,            \* page count shown on the first page of each category
    file,                 \* the [Woolworths] Resume_* keys of configuration.ini on disk
    CFG,                  \* the same keys in the in-memory ConfigParser
    RESUME_ACTIVE, RESUME_CATEGORY, RESUME_PAGE,   \* read once at import
    FETCH_INGREDIENTS, FETCH_NUTRITION,            \* read once at import
    run,                  \* number of the current invocation
    exit,                 \* "running", or how the current invocation ended
    error,                \* the exception that left main, "none" otherwise
    pc,                   \* position of main
    pstep,                \* position inside persist_resume / the final reset
    cats_all, categories, \* main's locals
    ci,                   \* index in categories of the loop variable cat
    total_pages, first_page,
    page,                 \* loop variable of the page loop
    page_it,              \* next value of range(first_page, total_pages + 1)
    tries, product_count, idx, pages_since_restart,
    data,                 \* the tile read by get_tile_texts
    ingredients, nutrition_json,
    rows,                 \* rows appended to the primary output file
    out,                  \* the file the writer of this run appends to
    attempt,              \* local of open_csv_writer_with_retry
    headers,              \* header rows in the primary output file
    exists,               \* the primary output file exists
    is_new,               \* local of open_csv_writer_with_retry
    slept,                \* history: the waits of line 114 of this run, in milliseconds
    grid_waits,           \* history: the waits of line 799 of the visit in hand, in tenths of a second
    altFiles,             \* the alternate output file of each invocation
    locked,               \* another program holds the primary output file open
    closed,               \* f.close() has been called on the output file of this run
    driver,               \* the session the current driver object stands for
    sessions,             \* number of browser sessions alive
    windows,              \* the browsing contexts open in the session
    current,              \* the context the session is switched to
    DETAILS_CACHE,        \* _DETAILS_CACHE
    pending,              \* how the try block of fetch_details_for_link was left
    orig,                 \* local of fetch_details_for_link
    details,              \* local of main, line 832
    started, completed,   \* history: pages opened for extraction / fully extracted, this run
    firstOpened,          \* history: first page opened for extraction by this run
    resumeDue,            \* history: where this run ought to start
    wrote,                \* history: this run has written the checkpoint
    calls,                \* history: the (category, page) positions this run entered and asked to persist
    persisted,            \* history: the persist_resume calls of this run, in order: (place in the crawl list, page, active)
    resetDone,            \* history: this run has performed the final reset
    loopFailed,           \* history: the crawl loop was left by an exception or SIGINT
    midPage,              \* history: the invocation before ended inside the extraction of a page
    restarts,             \* history: hygiene restarts of this run
    fetched,              \* history: the links fetched with success, in order, this run
    fetchRaised,          \* history: the detail fetch of the tile in hand raised
    loops,                \* local of _scroll_page_fully
    expand_it,            \* turns done of the loop of line 662
    rescan,               \* fetch_details_for_link is in its second pass, lines 668-671
    args,                 \* arguments of the function called on its own
    returned,             \* what that call returned, NotCalled before it
    followed,             \* the specification follows each visit tile by tile
    seen,                 \* history: the tiles read since the tile loop of this visit began
    appended              \* history: the rows written since then, in order

vars == <<site, sitePages, file, CFG, RESUME_ACTIVE, RESUME_CATEGORY, RESUME_PAGE,
          FETCH_INGREDIENTS, FETCH_NUTRITION,
          run, exit, error, pc, pstep, cats_all, categories, ci, total_pages, first_page,
          page, page_it, tries, product_count, idx, pages_since_restart,
          data, ingredients, nutrition_json, rows, out, attempt, headers, exists, is_new,
          slept, altFiles, locked, closed,
          driver, sessions, windows, current, DETAILS_CACHE, pending, orig, details,
          started, completed, firstOpened, resumeDue, wrote, calls, persisted, resetDone, loopFailed,
          midPage, restarts, fetched, fetchRaised, loops, expand_it, rescan, args, returned,
          followed, seen, appended, grid_waits>>

siteVars == <<site, sitePages>>
importVars == <<RESUME_ACTIVE, RESUME_CATEGORY, RESUME_PAGE, FETCH_INGREDIENTS, FETCH_NUTRITION>>
histVars == <<started, completed, firstOpened, resumeDue, midPage, wrote, calls, persisted, resetDone, loopFailed>>
localVars == <<cats_all, categories, ci, total_pages, first_page, page, page_it,
               tries, product_count, idx, pages_since_restart>>
writerVars == <<out, attempt, headers, exists, is_new, slept, altFiles, locked, closed>>
sessionVars == <<driver, sessions, windows, current, restarts>>
detailVars == <<data, ingredients, nutrition_json, DETAILS_CACHE, pending, orig, details,
                fetched, fetchRaised>>
scrollVars == <<loops, expand_it, rescan>>
callVars == <<args, returned>>
visitVars == <<followed, seen, appended>>

NotCalled == <<"not called">>

Checkpoint(a, c, p) == [active |-> a, category |-> c, page |-> p]

ResetCheckpoint == Checkpoint("FALSE", NoCategory, 0)

cat_name == categories[ci].name

(***************************************************************************)
(* filter_for_resume: keep the categories from the first one named         *)
(* RESUME_CATEGORY on; nothing is kept before the first match.             *)
(***************************************************************************)
RECURSIVE filter_loop(_, _, _, _)
filter_loop(cs, i, keep, found) ==
    IF i > Len(cs) THEN keep
    ELSE LET found2 == found \/ (cs[i].name = RESUME_CATEGORY)
         IN  filter_loop(cs, i + 1, IF found2 THEN Append(keep, cs[i]) ELSE keep, found2)


\* mutant: the category of the checkpoint is dropped with the ones before it
filter_for_resume_after(cs) ==
    IF ~RESUME_ACTIVE THEN cs
    ELSE LET kept == filter_loop(cs, 1, << >>, FALSE)
         IN  IF kept = << >> THEN kept ELSE Tail(kept)

filter_for_resume(cs) ==
    IF ~RESUME_ACTIVE THEN cs ELSE filter_loop(cs, 1, << >>, FALSE)

(***************************************************************************)
(* The page a category starts at: lines 786 and 790.                       *)
(***************************************************************************)
\* mutant: every category starts at its first page
FirstPage_one(n) == 1

FirstPage(n) == IF RESUME_ACTIVE /\ n = RESUME_CATEGORY THEN RESUME_PAGE ELSE 1


(***************************************************************************)
(* Python's str operations on texts (sequences of one-character strings).  *)
(* Indices are Python's: 0-based, -1 for "not found".                      *)
(***************************************************************************)
Whitespace == {" ", "\t", "\n"}

DigitChars == <<"0", "1", "2", "3", "4", "5", "6", "7", "8", "9">>

IsDigit(ch) == \E d \in 1..10 : DigitChars[d] = ch

DigitValue(ch) == (CHOOSE d \in 1..10 : DigitChars[d] = ch) - 1

MatchAt(s, sub, i) ==
    /\ i + Len(sub) <= Len(s)
    /\ \A k \in 1..Len(sub) : s[i + k] = sub[k]

\* s.find(sub)
find(s, sub) ==
    IF \E i \in 0..Len(s) : MatchAt(s, sub, i)
    THEN CHOOSE i \in 0..Len(s) : MatchAt(s, sub, i) /\ \A j \in 0..(i - 1) : ~MatchAt(s, sub, j)
    ELSE -1

\* sub in s
contains(s, sub) == find(s, sub) # -1

ClampIndex(i, n) == IF i < 0 THEN (IF i + n < 0 THEN 0 ELSE i + n) ELSE (IF i > n THEN n ELSE i)

\* s[a:b]
slice(s, a, b) == SubSeq(s, ClampIndex(a, Len(s)) + 1, ClampIndex(b, Len(s)))

\* s[a:]
slice_from(s, a) == slice(s, a, Len(s))

RECURSIVE lstrip(_)
lstrip(s) == IF s # << >> /\ Head(s) \in Whitespace THEN lstrip(Tail(s)) ELSE s

RECURSIVE rstrip(_)
rstrip(s) ==
    IF s # << >> /\ s[Len(s)] \in Whitespace THEN rstrip(SubSeq(s, 1, Len(s) - 1)) ELSE s

\* s.strip()
strip(s) == rstrip(lstrip(s))

\* s.split(sep), sep non-empty
RECURSIVE split(_, _)
split(s, sep) ==
    LET i == find(s, sep)
    IN  IF i = -1 THEN <<s>>
        ELSE <<slice(s, 0, i)>> \o split(slice_from(s, i + Len(sep)), sep)

\* s.split(sep, 1)
split1(s, sep) ==
    LET i == find(s, sep)
    IN  IF i = -1 THEN <<s>> ELSE <<slice(s, 0, i), slice_from(s, i + Len(sep))>>

\* s.split(): the maximal runs of non-whitespace characters
RECURSIVE split_ws(_)
split_ws(s) ==
    LET t == lstrip(s)
    IN  IF t = << >> THEN << >>
        ELSE LET ends == {i \in 1..Len(t) : t[i] \in Whitespace}
                 n == IF ends = {} THEN Len(t)
                      ELSE (CHOOSE i \in ends : \A j \in ends : i <= j) - 1
             IN  <<SubSeq(t, 1, n)>> \o split_ws(SubSeq(t, n + 1, Len(t)))

\* s.replace(old, new), old non-empty
RECURSIVE replace(_, _, _)
replace(s, old, new) ==
    LET i == find(s, old)
    IN  IF i = -1 THEN s
        ELSE slice(s, 0, i) \o new \o replace(slice_from(s, i + Len(old)), old, new)

\* the character U+00B2: str.isdigit accepts it, int and float do not
SuperscriptTwo == "U+00B2"

\* ch.isdigit()
isdigit(ch) == IsDigit(ch) \/ ch = SuperscriptTwo

\* ''.join(ch for ch in s if ch.isdigit())
digits_of(s) == SelectSeq(s, isdigit)

\* int(s) for a text of decimal digits, 0 for "" (the  or "0"  of line 311)
RECURSIVE int_of(_)
int_of(s) == IF s = << >> THEN 0 ELSE 10 * int_of(SubSeq(s, 1, Len(s) - 1)) + DigitValue(s[Len(s)])

\* str(n) for n >= 0
RECURSIVE str_of(_)
str_of(n) == IF n < 10 THEN <<DigitChars[n + 1]>> ELSE str_of(n \div 10) \o <<DigitChars[(n % 10) + 1]>>

(***************************************************************************)
(* float(text), round(total / qty, 2) and the f-string of line 316.        *)
(* A float is kept exactly, as num / 10^scale.  The texts of the model     *)
(* hold plain decimals only (no exponent, "inf", "nan" or "_").            *)
(***************************************************************************)
RECURSIVE Pow10(_)
Pow10(k) == IF k = 0 THEN 1 ELSE 10 * Pow10(k - 1)

AllDigits(s) == \A i \in 1..Len(s) : IsDigit(s[i])

\* float(s): [ok |-> FALSE] stands for ValueError
float_of(s) ==
    LET signed == s # << >> /\ Head(s) \in {"+", "-"}
        body == IF signed THEN Tail(s) ELSE s
        dot == find(body, <<".">>)
        ip == IF dot = -1 THEN body ELSE slice(body, 0, dot)
        fp == IF dot = -1 THEN << >> ELSE slice_from(body, dot + 1)
        sign == IF signed /\ Head(s) = "-" THEN -1 ELSE 1
    IN  IF AllDigits(ip) /\ AllDigits(fp) /\ Len(ip) + Len(fp) > 0
        THEN [ok |-> TRUE, num |-> sign * int_of(ip \o fp), scale |-> Len(fp)]
        ELSE [ok |-> FALSE, num |-> 0, scale |-> 0]

\* round(total / qty, 2) in hundredths, total > 0 and qty > 0.  A quotient exactly
\* half way between two hundredths goes to the even one when it is a binary
\* fraction (x.125, x.375, ...); for the other ties the direction depends on the
\* double nearest to the quotient, and the texts of the model produce none.
round2_cents(total, qty) ==
    LET n == 100 * total.num
        d == Pow10(total.scale) * qty
        c == n \div d
        r == n % d
    IN  IF 2 * r < d THEN c
        ELSE IF 2 * r > d THEN c + 1
        ELSE IF c % 2 = 0 THEN c ELSE c + 1

RoundIsModelled(total, qty) ==
    LET n == 100 * total.num
        d == Pow10(total.scale) * qty
    IN  2 * (n % d) = d => (2 * (n \div d) + 1) % 25 = 0

\* repr of a float that is a non-negative number of hundredths: 2.5, 3.33, 2.0
repr_cents(c) ==
    LET ipart == str_of(c \div 100)
        f == c % 100
    IN  IF f % 10 = 0 THEN ipart \o <<".", DigitChars[(f \div 10) + 1]>>
        ELSE ipart \o <<".", DigitChars[(f \div 10) + 1], DigitChars[(f % 10) + 1]>>

(***************************************************************************)
(* normalize_best_price (lines 296-321).  None is Python's None.           *)
(***************************************************************************)
None == <<"None">>

STR_RANGE_WAS == <<"R", "a", "n", "g", "e", " ", "w", "a", "s", " ">>
STR_WAS == <<"W", "a", "s", " ">>
STR_MEMBER_PRICE == <<"M", "e", "m", "b", "e", "r", " ", "P", "r", "i", "c", "e">>
STR_FOR == <<" ", "f", "o", "r", " ">>
STR_DASH == <<" ", "-", " ">>
STR_DOLLAR == <<"$">>

\* exceptions, as the value of the expression that raised them
IndexError == <<"IndexError">>
ValueError == <<"ValueError">>
TimeoutException == <<"TimeoutException">>
Exceptions == {IndexError, ValueError, TimeoutException}

\* an integer, as the value of an expression
Integer(n) == <<"int", n>>

\* mutant: no handler, the exception leaves the function
except_none_of(v, caught, handled) == v

\* try: v / except caught: handled
except_of(v, caught, handled) == IF v \in caught THEN handled ELSE v

\* mutant: no handler, the exception leaves the function
except_nothing(v, handled) == v

\* try: v / except Exception: handled
except_Exception(v, handled) == IF v \in Exceptions THEN handled ELSE v

\* line 303: split()[0] raises IndexError when there is no word
price_was_of(p) ==
    IF contains(p, STR_DASH)
    THEN strip(slice(p, find(p, STR_DOLLAR), find(p, STR_DASH)))
    ELSE LET words == split_ws(slice_from(p, find(p, STR_DOLLAR)))
         IN  IF words = << >> THEN IndexError ELSE words[1]

\* lines 302-305
promo_price_was(p) == except_Exception(price_was_of(p), None)

\* lines 309-318: <<best_price, best_unitprice>>; int() and float() raise
\* ValueError before either is assigned
best_of(itemprice, unitprice, p2) ==
    LET parts == split(p2, STR_FOR)
        qty_digits == digits_of(strip(parts[1]))
        qty == int_of(qty_digits)
        after_for == parts[2]
        price_str == strip(split(after_for, STR_DASH)[1])
        total == float_of(strip(replace(price_str, STR_DOLLAR, << >>)))
    IN  IF ~(contains(p2, STR_FOR) /\ contains(p2, STR_DOLLAR)) THEN <<itemprice, unitprice>>
        ELSE IF ~AllDigits(qty_digits) \/ ~total.ok THEN ValueError
        ELSE <<IF qty > 0 /\ total.num > 0
                 THEN STR_DOLLAR \o repr_cents(round2_cents(total, qty))
                 ELSE itemprice,
               IF contains(after_for, STR_DASH)
                 THEN strip(split1(after_for, STR_DASH)[2])
                 ELSE unitprice>>

\* lines 307-320
promo_best(itemprice, unitprice, p) ==
    except_Exception(best_of(itemprice, unitprice, strip(replace(p, STR_MEMBER_PRICE, << >>))),
                     <<itemprice, unitprice>>)

\* mutant: a price in the promo text is taken for the former price, marker or not
normalize_best_price_any_price(itemprice, unitprice, promo) ==
    IF promo = << >> THEN <<itemprice, unitprice, None>>
    ELSE LET price_was == IF contains(promo, STR_DOLLAR) THEN promo_price_was(promo) ELSE None
             best == IF contains(promo, STR_MEMBER_PRICE) \/ contains(promo, STR_FOR)
                     THEN promo_best(itemprice, unitprice, promo)
                     ELSE <<itemprice, unitprice>>
         IN  <<best[1], best[2], price_was>>

\* an exception that no handler caught leaves the function
normalize_best_price(itemprice, unitprice, promo) ==
    IF promo = << >> THEN <<itemprice, unitprice, None>>
    ELSE LET price_was == IF contains(promo, STR_RANGE_WAS) \/ contains(promo, STR_WAS)
                          THEN promo_price_was(promo) ELSE None
             best == IF contains(promo, STR_MEMBER_PRICE) \/ contains(promo, STR_FOR)
                     THEN promo_best(itemprice, unitprice, promo)
                     ELSE <<itemprice, unitprice>>
         IN  IF price_was \in Exceptions THEN price_was
             ELSE IF best \in Exceptions THEN best
             ELSE <<best[1], best[2], price_was>>

(***************************************************************************)
(* Tiles (get_tile_texts, lines 260-294).  The script reads the text       *)
(* regions of the tile and derives the product code from the link; a       *)
(* failed script (safe_js default) gives a tile with every field empty.    *)
(***************************************************************************)
STR_SLASH == <<"/">>
STR_PRODUCTDETAILS == <<"p", "r", "o", "d", "u", "c", "t", "d", "e", "t", "a", "i", "l", "s">>

\* JavaScript's bits[i] || "" for a 0-based index i
BitOr(bits, i) == IF i >= 0 /\ i < Len(bits) THEN bits[i + 1] ELSE << >>

\* lines 283-288
code_of_link(link) ==
    IF link = << >> THEN << >>
    ELSE LET bits == split(link, STR_SLASH)
             code == BitOr(bits, Len(bits) - 2)
         IN  IF code = STR_PRODUCTDETAILS THEN BitOr(bits, Len(bits) - 1) ELSE code

Tile(name, price, unitprice, special, promo, was, link) ==
    [name |-> strip(name), price |-> strip(price), unitprice |-> strip(unitprice),
     special |-> strip(special), promo |-> strip(promo), was |-> strip(was),
     link |-> strip(link), code |-> strip(code_of_link(link))]

TileNames == {<< >>, <<"M", "i", "l", "k">>}
TilePrices == {<< >>, <<"$", "4">>}
TileUnitPrices == {<<"$", "2", "/", "L">>}
TilePromos == {<< >>, <<"2", " ", "f", "o", "r", " ", "$", "5">>}
TileLinks == {<< >>, <<"h", "/", "/", "m">>, <<"h", "/", "p", "r", "o", "d", "u", "c", "t", "d", "e", "t", "a", "i", "l", "s", "/", "7", "/", "m">>, <<"h", "/", "p", "r", "o", "d", "u", "c", "t", "d", "e", "t", "a", "i", "l", "s", "/", "9">>}

\* the tiles a page can show: one region is missing, or none is
Tiles ==
    {Tile(n, p, u, << >>, pr, << >>, l) :
        n \in TileNames, p \in TilePrices, u \in TileUnitPrices, pr \in TilePromos, l \in TileLinks}

\* the tiles the model draws: the promo is tied to the link; the last one is the
\* tile of a failed script
DrawnTiles ==
    {t \in Tiles : (t.promo # << >>) = (t.link = <<"h", "/", "p", "r", "o", "d", "u", "c", "t", "d", "e", "t", "a", "i", "l", "s", "/", "9">>)}
        \cup {Tile(<< >>, << >>, << >>, << >>, << >>, << >>, << >>)}


\* mutant: the link and the code are not required
TileValid_lax(t) == t.name # << >> /\ t.price # << >>

\* line 822
TileValid(t) == t.name # << >> /\ t.price # << >> /\ t.link # << >> /\ t.code # << >>

\* line 777
DO_FETCH_DETAILS == FETCH_INGREDIENTS \/ FETCH_NUTRITION

\* what csv.writer writes for a field: None becomes the empty text
csv_field(v) == IF v = None THEN << >> ELSE v

\* line 825 for each tile the model draws: the function is applied once here
NormalizedTiles ==
    [t \in DrawnTiles |-> normalize_best_price(t.price, t.unitprice, t.promo)]

\* lines 825-847: the 13 fields of the row of a valid tile
RowOf(category, t, ingr, nutr) ==
    LET norm == IF t \in DrawnTiles THEN NormalizedTiles[t]
                ELSE normalize_best_price(t.price, t.unitprice, t.promo)
        struck == strip(t.was)
        price_was == IF struck # << >> THEN struck ELSE norm[3]
    IN  [code |-> t.code, category |-> category, name |-> t.name,
         best_price |-> norm[1], best_unitprice |-> norm[2],
         item_price |-> t.price, unit_price |-> t.unitprice,
         price_was |-> csv_field(price_was), special |-> t.special, promo |-> t.promo,
         link |-> t.link, ingredients |-> ingr, nutrition_json |-> nutr]

\* the tile of a failed script: safe_js gives the default, every field is ""
NoTile == Tile(<< >>, << >>, << >>, << >>, << >>, << >>, << >>)

(***************************************************************************)
(* Product pages and detail records (fetch_details_for_link, lines         *)
(* 639-723).  A product page is kept as what the parsers recover from its  *)
(* text: the ingredients and the nutrition table (the empty table when no  *)
(* nutrition is found by any of the strategies).                           *)
(***************************************************************************)
NoNutrition == << >>

STR_OATS == <<"O", "a", "t", "s">>
STR_ENERGY == <<"e", "n", "e", "r", "g", "y">>
STR_9KJ == <<"9", "k", "J">>

ProductPages ==
    {[ingredients |-> << >>, nutrition |-> NoNutrition],
     [ingredients |-> STR_OATS, nutrition |-> <<[key |-> STR_ENERGY, value |-> STR_9KJ]>>]}

\* line 646
NoDetails == [ingredients |-> << >>, nutrition |-> NoNutrition]

\* lines 673-715: the record built from a product page
DetailRecord(pg) ==
    [ingredients |-> IF FETCH_INGREDIENTS THEN pg.ingredients ELSE << >>,
     nutrition |-> IF FETCH_NUTRITION THEN pg.nutrition ELSE NoNutrition]

\* json.dumps of a flat table of texts: {"k": "v", ...}
RECURSIVE json_members(_, _)
json_members(nd, i) ==
    IF i > Len(nd) THEN << >>
    ELSE (IF i > 1 THEN <<",", " ">> ELSE << >>)
            \o <<"\"">> \o nd[i].key \o <<"\"", ":", " ", "\"">> \o nd[i].value \o <<"\"">>
            \o json_members(nd, i + 1)

json_dumps(nd) == <<"{">> \o json_members(nd, 1) \o <<"}">>

\* lines 833-837
ingredients_of(d) == IF FETCH_INGREDIENTS THEN d.ingredients ELSE << >>

nutrition_json_of(d) ==
    IF FETCH_NUTRITION /\ d.nutrition # NoNutrition
    THEN json_dumps(d.nutrition) ELSE << >>

(***************************************************************************)
(* The sites and the checkpoints a first invocation can find.              *)
(***************************************************************************)
Menu == <<"A", "B", "C", "D">>

Sites == {SubSeq(Menu, 1, n) : n \in 0..MaxCats}

StartOf(s) == IF s = << >> THEN Nowhere ELSE <<s[1], 1>>

InitCheckpoints(s, pages) ==
    {ResetCheckpoint, Checkpoint("TRUE", GoneCategory, 1)}
        \cup {c \in [active : {"TRUE"}, category : Range(s), page : 1..MaxPages] :
                c.page <= pages[c.category]}

DueOf(s, cp) ==
    IF cp.active = "TRUE" /\ cp.category \in Range(s) THEN <<cp.category, cp.page>>
    ELSE StartOf(s)

(***************************************************************************)
(* Import of the module (lines 34-47): the configuration is read and the   *)
(* RESUME_* globals are fixed for the whole run.                           *)
(***************************************************************************)
Import(cp) ==
    /\ CFG' = cp
    /\ RESUME_ACTIVE' = (cp.active = "TRUE")
    /\ RESUME_CATEGORY' = cp.category
    /\ RESUME_PAGE' = cp.page
    /\ UNCHANGED <<FETCH_INGREDIENTS, FETCH_NUTRITION>>

Locals0 ==
    /\ pc = "main" /\ pstep = 0
    /\ cats_all = << >> /\ categories = << >> /\ ci = 0
    /\ total_pages = 0 /\ first_page = 0 /\ page = 0 /\ page_it = 0
    /\ tries = 0 /\ product_count = 0 /\ idx = 0 /\ pages_since_restart = 0
    /\ data = NoTile /\ ingredients = << >> /\ nutrition_json = << >>
    /\ attempt = 0 /\ orig = "none" /\ pending = "none" /\ details = NoDetails
    /\ loops = 0 /\ expand_it = 0 /\ rescan = FALSE
    /\ grid_waits = << >>

NoAltFile == [headers |-> 0, rows |-> {}]

\* the specifications that do not follow a visit tile by tile
NoVisit == followed = FALSE /\ seen = << >> /\ appended = << >>

\* the history of the visit in hand becomes s and a where it is followed
Visit(s, a) ==
    IF followed THEN seen' = s /\ appended' = a /\ followed' = followed
    ELSE UNCHANGED visitVars

\* the process starts with no session and an empty detail cache (line 69)
Process0 ==
    /\ run = 1 /\ exit = "running" /\ error = "none"
    /\ Locals0
    /\ out = "none"
    /\ driver = "none" /\ sessions = 0 /\ windows = {} /\ current = "none"
    /\ DETAILS_CACHE = << >>
    /\ started = {} /\ completed = {} /\ firstOpened = Nowhere
    /\ wrote = FALSE /\ calls = {} /\ persisted = << >> /\ resetDone = FALSE /\ loopFailed = FALSE
    /\ restarts = 0 /\ fetched = << >> /\ fetchRaised = FALSE
    /\ args = << >> /\ returned = NotCalled

\* the configuration switches the detail fetch off
Init ==
    /\ site \in Sites
    /\ sitePages \in [Range(site) -> 1..MaxPages]
    /\ file \in InitCheckpoints(site, sitePages)
    /\ CFG = file
    /\ RESUME_ACTIVE = (file.active = "TRUE")
    /\ RESUME_CATEGORY = file.category
    /\ RESUME_PAGE = file.page
    /\ FETCH_INGREDIENTS = FALSE /\ FETCH_NUTRITION = FALSE
    /\ Process0
    /\ NoVisit
    /\ rows = {} /\ headers = 0 /\ exists = FALSE /\ is_new = FALSE /\ slept = << >> /\ locked = FALSE /\ closed = FALSE
    /\ altFiles = [r \in 1..MaxRuns |-> NoAltFile]
    /\ resumeDue = DueOf(site, file) /\ midPage = FALSE


(***************************************************************************)
(* The positions of main.                                                  *)
(***************************************************************************)
LoopPcs == {"cat_head", "cat_persist", "cat_open", "page_head", "page_persist", "page_open",
            "count", "recount", "branch", "tiles", "fetch", "fd_open", "fd_get", "fd_scroll",
            "fd_expand", "fd_parse", "fd_finally",
            "write", "page_done", "restart", "nap"}

ExtractPcs == {"page_open", "count", "recount", "branch", "tiles",
               "fetch", "fd_open", "fd_get", "fd_scroll", "fd_expand", "fd_parse", "fd_finally",
               "write"}

\* inside the try block of fetch_details_for_link, lines 652-723
TryPcs == {"fd_get", "fd_scroll", "fd_expand", "fd_parse", "fd_finally"}

FetchPcs == {"fetch", "fd_open"} \cup TryPcs

AfterLoopPcs == {"finally", "reset", "finished"}

Running == exit = "running"

\* default of open_csv_writer_with_retry, line 97
max_retries == 8

\* default of _scroll_page_fully, line 593
max_loops == 40

\* mutant: the save directory is probed after the output file is opened
Raises_late(p) ==
    CASE p = "with_d0" -> {"PermissionError", "WebDriverException"}
      [] p = "open_csv" -> {"OSError"}
      [] p = "discover" -> {"WebDriverException", "TimeoutException"}
      [] p = "launch" -> {"WebDriverException"}
      [] p \in {"cat_open", "page_open", "count"} -> {"WebDriverException"}
      [] p = "recount" -> IF product_count = 0 /\ tries < 2 THEN {"WebDriverException"} ELSE {}
      [] p = "write" -> {"OSError"}
      [] p = "restart" -> {"WebDriverException"}
      [] OTHER -> {}

(***************************************************************************)
(* The exceptions a statement of main lets through.  A dead session raises *)
(* on every command; a live one can fail to navigate or to find the page   *)
(* ready; an open or a write of the output can fail.  get_tile_texts       *)
(* (safe_js) and the detail fetch (lines 831-839) let nothing through.     *)
(***************************************************************************)
Raises(p) ==
    CASE p = "main" -> {"PermissionError"}                    \* line 752
      [] p = "open_csv" -> {"OSError"}                        \* lines 108, 120
      [] p = "with_d0" -> {"WebDriverException"}              \* line 760
      [] p = "discover" -> {"WebDriverException", "TimeoutException"}   \* lines 209-211
      [] p = "launch" -> {"WebDriverException"}               \* line 780
      [] p \in {"cat_open", "page_open", "count"} -> {"WebDriverException"}
      [] p = "recount" -> IF product_count = 0 /\ tries < 2 THEN {"WebDriverException"} ELSE {}
      [] p = "write" -> {"OSError"}                           \* line 841
      [] p = "restart" -> {"WebDriverException"}              \* lines 813, 856
      [] OTHER -> {}

\* the statements that call the browsing session or the output writer and can raise
RaisingPcs == {"main", "open_csv", "with_d0", "discover", "launch", "cat_open", "page_open",
               "count", "recount", "write", "restart"}

\* a new session has one browsing context
NewSession ==
    /\ driver' = "live"
    /\ sessions' = sessions + 1
    /\ windows' = {"main"}
    /\ current' = "main"

\* driver.quit(), failures swallowed: the session is gone afterwards
Quit ==
    /\ driver' = "none"
    /\ sessions' = IF driver = "live" THEN sessions - 1 ELSE sessions
    /\ windows' = {}
    /\ current' = "none"


\* mutant: the configuration is changed in memory and never written back
persist_resume_unwritten(category, pg, active, next) ==
    \/ /\ pstep = 0
       /\ CFG' = [CFG EXCEPT !.active = IF active THEN "TRUE" ELSE "FALSE",
                             !.category = category, !.page = pg]
       /\ pstep' = 3
       /\ calls' = calls \cup {<<category, pg>>}
       /\ persisted' = Append(persisted, <<ci, pg, active>>)
       /\ UNCHANGED <<file, pc, wrote>>
    \/ /\ pstep = 3
       /\ pstep' = 0
       /\ pc' = next
       /\ UNCHANGED <<file, CFG, calls, persisted, wrote>>

\* mutant: the page after the one entered is persisted
persist_resume_ahead(category, pg, active, next) ==
    \/ /\ pstep = 0
       /\ CFG' = [CFG EXCEPT !.active = IF active THEN "TRUE" ELSE "FALSE",
                             !.category = category, !.page = pg + 1]
       /\ pstep' = 3
       /\ calls' = calls \cup {<<category, pg>>}
       /\ persisted' = Append(persisted, <<ci, pg, active>>)
       /\ UNCHANGED <<file, pc, wrote>>
    \/ /\ pstep = 3
       /\ file' = CFG
       /\ wrote' = TRUE
       /\ pstep' = 0
       /\ pc' = next
       /\ UNCHANGED <<CFG, calls, persisted>>

(***************************************************************************)
(* persist_resume (lines 133-138), one statement at a time; next is the    *)
(* position of main after the call.                                        *)
(***************************************************************************)
persist_resume(category, pg, active, next) ==
    \/ /\ pstep = 0
       /\ CFG' = [CFG EXCEPT !.active = IF active THEN "TRUE" ELSE "FALSE"]
       /\ pstep' = 1
       /\ calls' = calls \cup {<<category, pg>>}
       /\ persisted' = Append(persisted, <<ci, pg, active>>)
       /\ UNCHANGED <<file, pc, wrote>>
    \/ /\ pstep = 1
       /\ CFG' = [CFG EXCEPT !.category = category]
       /\ pstep' = 2
       /\ UNCHANGED <<file, pc, wrote, calls, persisted>>
    \/ /\ pstep = 2
       /\ CFG' = [CFG EXCEPT !.page = pg]
       /\ pstep' = 3
       /\ UNCHANGED <<file, pc, wrote, calls, persisted>>
    \/ /\ pstep = 3
       /\ file' = CFG
       /\ wrote' = TRUE
       /\ pstep' = 0
       /\ pc' = next
       /\ UNCHANGED <<CFG, calls, persisted>>

(***************************************************************************)
(* main (lines 744-873).                                                   *)
(***************************************************************************)
\* lines 745-753: the save directory is writable
Main ==
    /\ Running /\ pc = "main"
    /\ pc' = "open_csv"
    /\ UNCHANGED <<siteVars, grid_waits, visitVars, callVars, scrollVars, file, CFG, importVars, run, exit, error, pstep, localVars, rows, histVars,
                   writerVars, sessionVars, detailVars>>

(***************************************************************************)
(* open_csv_writer_with_retry (lines 95-124), one attempt at a time: the   *)
(* primary file opens, which creates it when it is new (lines 107-108),    *)
(* and then gets the header if it was new (lines 110-112); or, the file    *)
(* being locked, the open fails with PermissionError and is tried again;   *)
(* after max_retries failures the alternate file of this invocation is     *)
(* opened and gets the header.                                             *)
(***************************************************************************)
\* line 98, in milliseconds
backoff_start == 400

\* mutant: the wait grows by backoff_start each time
backoff_linear(k) == backoff_start * (k + 1)

\* line 114: the wait after the failure of attempt number k
backoff(k) == backoff_start * (2 ^ k)

\* mutant: after max_retries failures the attempts start over
open_csv_writer_with_retry_wrapping ==
    IF pc = "csv_header"
    THEN /\ out' = "primary"
         /\ headers' = IF is_new THEN headers + 1 ELSE headers
         /\ pc' = "with_d0"
         /\ UNCHANGED <<attempt, exists, is_new, slept, altFiles>>
    ELSE IF attempt < max_retries
    THEN IF locked
         THEN /\ slept' = IF attempt + 1 = max_retries THEN << >>
                          ELSE Append(slept, backoff(attempt))
              /\ attempt' = (attempt + 1) % max_retries
              /\ UNCHANGED <<out, headers, exists, is_new, altFiles, pc>>
         ELSE /\ is_new' = ~exists
              /\ exists' = TRUE
              /\ pc' = "csv_header"
              /\ UNCHANGED <<out, attempt, headers, slept, altFiles>>
    ELSE /\ out' = "alt"
         /\ altFiles' = [altFiles EXCEPT ![run].headers = @ + 1]
         /\ pc' = "with_d0"
         /\ UNCHANGED <<attempt, headers, exists, is_new, slept>>

open_csv_writer_with_retry ==
    IF pc = "csv_header"
    THEN /\ out' = "primary"
         /\ headers' = IF is_new THEN headers + 1 ELSE headers
         /\ pc' = "with_d0"
         /\ UNCHANGED <<attempt, exists, is_new, slept, altFiles>>
    ELSE IF attempt < max_retries
    THEN IF locked
         THEN /\ slept' = Append(slept, backoff(attempt))
              /\ attempt' = attempt + 1
              /\ UNCHANGED <<out, headers, exists, is_new, altFiles, pc>>
         ELSE /\ is_new' = ~exists
              /\ exists' = TRUE
              /\ pc' = "csv_header"
              /\ UNCHANGED <<out, attempt, headers, slept, altFiles>>
    ELSE /\ out' = "alt"
         /\ altFiles' = [altFiles EXCEPT ![run].headers = @ + 1]
         /\ pc' = "with_d0"
         /\ UNCHANGED <<attempt, headers, exists, is_new, slept>>

\* line 756
OpenCsv ==
    /\ Running /\ pc \in {"open_csv", "csv_header"}
    /\ open_csv_writer_with_retry
    /\ UNCHANGED <<siteVars, grid_waits, visitVars, callVars, scrollVars, file, CFG, importVars, run, exit, error, pstep, localVars, rows, histVars,
                   locked, closed, sessionVars, detailVars>>

\* the other program closes the primary output file
Unlock ==
    /\ locked
    /\ locked' = FALSE
    /\ UNCHANGED <<siteVars, grid_waits, visitVars, callVars, scrollVars, file, CFG, importVars, run, exit, error, pc, pstep, localVars, rows,
                   histVars, out, attempt, headers, exists, is_new, slept, altFiles, closed, sessionVars,
                   detailVars>>

\* line 760: the session of the category discovery
WithD0 ==
    /\ Running /\ pc = "with_d0"
    /\ NewSession
    /\ pc' = "discover"
    /\ UNCHANGED <<siteVars, grid_waits, visitVars, callVars, scrollVars, file, CFG, importVars, run, exit, error, pstep, localVars, rows, histVars,
                   writerVars, restarts, detailVars>>

\* get_categories (lines 208-225) on the menu of the site
get_categories == [i \in 1..Len(site) |-> Category(site[i])]

\* lines 761-768: the categories are read and the session is quit
Discover ==
    /\ Running /\ pc = "discover" /\ driver = "live"
    /\ cats_all' = get_categories
    /\ Quit
    /\ IF cats_all' = << >>
       THEN exit' = "nocats" /\ pc' = pc
       ELSE exit' = exit /\ pc' = "filter"
    /\ closed' = (cats_all' = << >>)
    /\ UNCHANGED <<siteVars, grid_waits, visitVars, callVars, scrollVars, file, CFG, importVars, run, error, pstep, categories, ci, total_pages,
                   first_page, page, page_it, tries, product_count, idx, pages_since_restart,
                   rows, histVars, out, attempt, headers, exists, is_new, slept, altFiles, locked,
                   restarts, detailVars>>

\* lines 770-777
Filter ==
    /\ Running /\ pc = "filter"
    /\ categories' = filter_for_resume(cats_all)
    /\ pages_since_restart' = 0
    /\ pc' = "launch"
    /\ UNCHANGED <<siteVars, grid_waits, visitVars, callVars, scrollVars, file, CFG, importVars, run, exit, error, pstep, cats_all, ci, total_pages,
                   first_page, page, page_it, tries, product_count, idx, rows, histVars,
                   writerVars, sessionVars, detailVars>>

\* lines 779-780: the session of the crawl
Launch ==
    /\ Running /\ pc = "launch"
    /\ NewSession
    /\ pc' = "cat_head"
    /\ UNCHANGED <<siteVars, grid_waits, visitVars, callVars, scrollVars, file, CFG, importVars, run, exit, error, pstep, localVars, rows, histVars,
                   writerVars, restarts, detailVars>>

\* lines 782-784 and the end of the loop
CatHead ==
    /\ Running /\ pc = "cat_head"
    /\ IF ci < Len(categories)
       THEN ci' = ci + 1 /\ pc' = "cat_persist"
       ELSE ci' = ci /\ pc' = "finally"
    /\ UNCHANGED <<siteVars, grid_waits, visitVars, callVars, scrollVars, file, CFG, importVars, run, exit, error, pstep, cats_all, categories,
                   total_pages, first_page, page, page_it, tries, product_count, idx,
                   pages_since_restart, rows, histVars,
                   writerVars, sessionVars, detailVars>>

\* line 786
CatPersist ==
    /\ Running /\ pc = "cat_persist"
    /\ persist_resume(cat_name, FirstPage(cat_name), TRUE, "cat_open")
    /\ UNCHANGED <<siteVars, grid_waits, visitVars, callVars, scrollVars, importVars, run, exit, error, localVars, rows,
                   started, completed, firstOpened, resumeDue, midPage, resetDone, loopFailed,
                   writerVars, sessionVars, detailVars>>

\* get_total_pages (lines 238-244): the count the page shows, or 1 when the
\* indicator does not appear in time
get_total_pages == {sitePages[cat_name], 1}

\* lines 788-790 and the range of line 792
CatOpen ==
    /\ Running /\ pc = "cat_open" /\ driver = "live"
    /\ total_pages' \in get_total_pages
    /\ first_page' = FirstPage(cat_name)
    /\ page_it' = first_page'
    /\ pc' = "page_head"
    /\ UNCHANGED <<siteVars, grid_waits, visitVars, callVars, scrollVars, file, CFG, importVars, run, exit, error, pstep, cats_all, categories, ci,
                   page, tries, product_count, idx, pages_since_restart, rows, histVars,
                   writerVars, sessionVars, detailVars>>

\* line 792
PageHead ==
    /\ Running /\ pc = "page_head"
    /\ IF page_it <= total_pages
       THEN page' = page_it /\ page_it' = page_it + 1 /\ pc' = "page_persist"
       ELSE page' = page /\ page_it' = page_it /\ pc' = "nap"
    /\ UNCHANGED <<siteVars, grid_waits, visitVars, callVars, scrollVars, file, CFG, importVars, run, exit, error, pstep, cats_all, categories, ci,
                   total_pages, first_page, tries, product_count, idx, pages_since_restart,
                   rows, histVars,
                   writerVars, sessionVars, detailVars>>

\* mutant: the page before the one entered is persisted
PagePersist_behind ==
    /\ Running /\ pc = "page_persist"
    /\ persist_resume(cat_name, page - 1, TRUE, "page_open")
    /\ UNCHANGED <<siteVars, grid_waits, visitVars, callVars, scrollVars, importVars, run, exit, error, localVars, rows,
                   started, completed, firstOpened, resumeDue, midPage, resetDone, loopFailed,
                   writerVars, sessionVars, detailVars>>

\* line 793
PagePersist ==
    /\ Running /\ pc = "page_persist"
    /\ persist_resume(cat_name, page, TRUE, "page_open")
    /\ UNCHANGED <<siteVars, grid_waits, visitVars, callVars, scrollVars, importVars, run, exit, error, localVars, rows,
                   started, completed, firstOpened, resumeDue, midPage, resetDone, loopFailed,
                   writerVars, sessionVars, detailVars>>

\* line 794
PageOpen ==
    /\ Running /\ pc = "page_open" /\ driver = "live"
    /\ started' = started \cup {<<cat_name, page>>}
    /\ firstOpened' = IF firstOpened = Nowhere THEN <<cat_name, page>> ELSE firstOpened
    /\ pc' = "count"
    /\ UNCHANGED <<siteVars, grid_waits, visitVars, callVars, scrollVars, file, CFG, importVars, run, exit, error, pstep, localVars, rows,
                   completed, resumeDue, midPage, wrote, calls, persisted, resetDone, loopFailed,
                   writerVars, sessionVars, detailVars>>

\* line 796
Count ==
    /\ Running /\ pc = "count" /\ driver = "live"
    /\ tries' = 0
    /\ product_count' \in 0..MaxTiles
    /\ pc' = "recount"
    /\ grid_waits' = << >>
    /\ UNCHANGED <<siteVars, visitVars, callVars, scrollVars, file, CFG, importVars, run, exit, error, pstep, cats_all, categories, ci,
                   total_pages, first_page, page, page_it, idx, pages_since_restart,
                   rows, histVars,
                   writerVars, sessionVars, detailVars>>


\* line 42, the fallback of DelaySeconds
DELAY_BASE == 2

\* line 799: the wait before the re-count number k, in tenths of a second
recount_wait(k) == DELAY_BASE * 10 + 15

\* mutant: one re-count too many
Recount_thrice ==
    /\ Running /\ pc = "recount"
    /\ IF product_count = 0 /\ tries < 3
       THEN /\ driver = "live"
            /\ product_count' \in 0..MaxTiles
            /\ tries' = tries + 1
            /\ pc' = pc
       ELSE /\ pc' = "branch"
            /\ UNCHANGED <<product_count, tries>>
    /\ grid_waits' = IF product_count = 0 /\ tries < 3 THEN Append(grid_waits, recount_wait(tries))
                     ELSE grid_waits
    /\ UNCHANGED <<siteVars, visitVars, callVars, scrollVars, file, CFG, importVars, run, exit, error, pstep, cats_all, categories, ci,
                   total_pages, first_page, page, page_it, idx, pages_since_restart,
                   rows, histVars,
                   writerVars, sessionVars, detailVars>>

\* lines 797-803
Recount ==
    /\ Running /\ pc = "recount"
    /\ IF product_count = 0 /\ tries < 2
       THEN /\ driver = "live"
            /\ product_count' \in 0..MaxTiles
            /\ tries' = tries + 1
            /\ pc' = pc
       ELSE /\ pc' = "branch"
            /\ UNCHANGED <<product_count, tries>>
    /\ grid_waits' = IF product_count = 0 /\ tries < 2 THEN Append(grid_waits, recount_wait(tries))
                     ELSE grid_waits
    /\ UNCHANGED <<siteVars, visitVars, callVars, scrollVars, file, CFG, importVars, run, exit, error, pstep, cats_all, categories, ci,
                   total_pages, first_page, page, page_it, idx, pages_since_restart,
                   rows, histVars,
                   writerVars, sessionVars, detailVars>>

\* mutant: a page that stayed empty is not counted
Branch_uncounted ==
    /\ Running /\ pc = "branch"
    /\ IF product_count = 0
       THEN /\ pages_since_restart' = pages_since_restart
            /\ pc' = "page_head"
            /\ completed' = completed \cup {<<cat_name, page>>}
            /\ idx' = idx
       ELSE /\ idx' = 0
            /\ pc' = "tiles"
            /\ UNCHANGED <<pages_since_restart, completed>>
    /\ IF product_count = 0 THEN UNCHANGED visitVars ELSE Visit(<< >>, << >>)
    /\ UNCHANGED <<siteVars, grid_waits, callVars, scrollVars, file, CFG, importVars, run, exit, error, pstep, cats_all, categories, ci,
                   total_pages, first_page, page, page_it, tries, product_count, rows,
                   started, firstOpened, resumeDue, midPage, wrote, calls, persisted, resetDone, loopFailed,
                   writerVars, sessionVars, detailVars>>

\* lines 805-807 and 814, or line 816
Branch ==
    /\ Running /\ pc = "branch"
    /\ IF product_count = 0
       THEN /\ pages_since_restart' = pages_since_restart + 1
            /\ pc' = IF pages_since_restart' % RESTART_EVERY_PAGES = 0 THEN "restart" ELSE "page_head"
            /\ completed' = completed \cup {<<cat_name, page>>}
            /\ idx' = idx
       ELSE /\ idx' = 0
            /\ pc' = "tiles"
            /\ UNCHANGED <<pages_since_restart, completed>>
    /\ IF product_count = 0 THEN UNCHANGED visitVars ELSE Visit(<< >>, << >>)
    /\ UNCHANGED <<siteVars, grid_waits, callVars, scrollVars, file, CFG, importVars, run, exit, error, pstep, cats_all, categories, ci,
                   total_pages, first_page, page, page_it, tries, product_count, rows,
                   started, firstOpened, resumeDue, midPage, wrote, calls, persisted, resetDone, loopFailed,
                   writerVars, sessionVars, detailVars>>

\* get_tile_texts (lines 260-294): a tile of the grid, or the empty tile when the
\* script fails or the session is not on the grid
get_tile_texts == IF driver = "live" /\ current = "main" THEN DrawnTiles ELSE {NoTile}

\* lines 816-830: one tile is read; a valid one is kept for its row
TileStep ==
    /\ Running /\ pc = "tiles"
    /\ IF idx < product_count
       THEN \E t \in get_tile_texts :
                /\ Visit(Append(seen, t), appended)
                /\ IF TileValid(t)
                   THEN /\ data' = t
                        /\ pc' = IF DO_FETCH_DETAILS THEN "fetch" ELSE "write"
                        /\ idx' = idx
                   ELSE /\ data' = data
                        /\ pc' = pc
                        /\ idx' = idx + 1
       ELSE /\ pc' = "page_done"
            /\ UNCHANGED <<data, idx, visitVars>>
    /\ ingredients' = << >> /\ nutrition_json' = << >> /\ fetchRaised' = FALSE
    /\ UNCHANGED <<siteVars, grid_waits, callVars, scrollVars, file, CFG, importVars, run, exit, error, pstep, cats_all, categories, ci,
                   total_pages, first_page, page, page_it, tries, product_count,
                   pages_since_restart, rows, histVars, writerVars, sessionVars,
                   DETAILS_CACHE, pending, orig, details, fetched>>

\* lines 71-78
CSV_HEADER ==
    <<"Product Code", "Category", "Item Name", "Best Price", "Best Unit Price",
      "Item Price", "Unit Price", "Price Was", "Special Text", "Complex Promo Text",
      "Link", "Ingredients", "NutritionJSON">>

\* lines 841-847: the fields of a row in the order of the list that is written
row_columns ==
    <<"code", "category", "name", "best_price", "best_unitprice", "item_price",
      "unit_price", "price_was", "special", "promo", "link", "ingredients",
      "nutrition_json">>

\* mutant: the file is rewritten with the row
writerow_rewriting(row) ==
    IF out = "primary"
    THEN /\ rows' = {row}
         /\ altFiles' = altFiles
    ELSE /\ altFiles' = [altFiles EXCEPT ![run].rows = {row}]
         /\ rows' = rows

\* mutant: the rows go to the primary file whatever file was opened
writerow_primary(row) ==
    /\ rows' = rows \cup {row}
    /\ altFiles' = altFiles

\* writer.writerow on the file opened at line 756
writerow(row) ==
    IF out = "primary"
    THEN /\ rows' = rows \cup {row}
         /\ altFiles' = altFiles
    ELSE /\ altFiles' = [altFiles EXCEPT ![run].rows = @ \cup {row}]
         /\ rows' = rows

\* lines 841-847; the locals of the iteration are dead afterwards
WriteRow ==
    /\ Running /\ pc = "write"
    /\ writerow(RowOf(cat_name, data, ingredients, nutrition_json))
    /\ Visit(seen, Append(appended, RowOf(cat_name, data, ingredients, nutrition_json)))
    /\ idx' = idx + 1
    /\ pc' = "tiles"
    /\ data' = NoTile /\ ingredients' = << >> /\ nutrition_json' = << >>
    /\ details' = NoDetails /\ fetchRaised' = FALSE
    /\ UNCHANGED <<siteVars, grid_waits, callVars, scrollVars, file, CFG, importVars, run, exit, error, pstep, cats_all, categories, ci,
                   total_pages, first_page, page, page_it, tries, product_count,
                   pages_since_restart, histVars, out, attempt, headers, exists, is_new, slept,
                   locked, closed,
                   sessionVars,
                   DETAILS_CACHE, pending, orig, fetched>>

(***************************************************************************)
(* fetch_details_for_link (lines 639-723) as called at lines 831-839.  An  *)
(* exception of the session is caught at line 838.                         *)
(***************************************************************************)
\* mutant: the cache is not consulted
cache_hit_never(url) == FALSE

\* line 647
cache_hit(url) == url \in DOMAIN DETAILS_CACHE

\* lines 645-648, and lines 833-837 when the call returns at once
Fetch ==
    /\ Running /\ pc = "fetch"
    /\ IF data.link = << >> \/ cache_hit(data.link)
       THEN /\ details' = IF data.link = << >> THEN NoDetails ELSE DETAILS_CACHE[data.link]
            /\ ingredients' = ingredients_of(details')
            /\ nutrition_json' = nutrition_json_of(details')
            /\ pc' = "write"
       ELSE /\ pc' = "fd_open"
            /\ UNCHANGED <<details, ingredients, nutrition_json>>
    /\ UNCHANGED <<siteVars, grid_waits, visitVars, callVars, scrollVars, file, CFG, importVars, run, exit, error, pstep, localVars, rows,
                   histVars, writerVars, sessionVars, data, DETAILS_CACHE, pending, orig,
                   fetched, fetchRaised>>

\* lines 650-651: the secondary context is opened and switched to, or the
\* command raises, before the try, and line 838 catches it
FetchOpen ==
    /\ Running /\ pc = "fd_open"
    /\ \/ /\ driver = "live"
          /\ orig' = current
          /\ windows' = windows \cup {"tab"}
          /\ current' = "tab"
          /\ pc' = "fd_get"
          /\ UNCHANGED fetchRaised
       \/ /\ fetchRaised' = TRUE
          /\ pc' = "write"
          /\ UNCHANGED <<orig, windows, current>>
    /\ UNCHANGED <<siteVars, grid_waits, visitVars, callVars, scrollVars, file, CFG, importVars, run, exit, error, pstep, localVars, rows,
                   histVars, writerVars, driver, sessions, restarts, data, ingredients,
                   nutrition_json, DETAILS_CACHE, pending, details, fetched>>

\* lines 653-660: the product page is loaded (a wait for its body that times
\* out is passed over), or the command raises
FetchGet ==
    /\ Running /\ pc = "fd_get"
    /\ \/ /\ driver = "live"
          /\ pc' = "fd_scroll"
          /\ pending' = pending
       \/ /\ pending' = "raise"
          /\ pc' = "fd_finally"
    /\ UNCHANGED <<siteVars, grid_waits, visitVars, callVars, scrollVars, file, CFG, importVars, run, exit, error, pstep,
                   localVars, rows, histVars, writerVars, sessionVars, data, ingredients,
                   nutrition_json, DETAILS_CACHE, orig, details, fetched, fetchRaised>>

\* _scroll_page_fully (lines 593-607), one turn of its loop: the page has more to
\* show and loops is counted; or the page is at its end, or max_loops turns are
\* done, and after lines 606-607 the first pass goes on to line 662 and the
\* second to lines 670-671; or a command of the session raises
Scroll ==
    /\ Running /\ pc = "fd_scroll"
    /\ \/ /\ driver = "live" /\ loops < max_loops
          /\ loops' = loops + 1
          /\ UNCHANGED <<pc, rescan, pending>>
       \/ /\ driver = "live"
          /\ loops' = 0
          /\ pc' = IF rescan THEN "fd_parse" ELSE "fd_expand"
          /\ UNCHANGED <<rescan, pending>>
       \/ /\ pending' = "raise"
          /\ pc' = "fd_finally"
          /\ loops' = 0 /\ rescan' = FALSE
    /\ UNCHANGED <<siteVars, grid_waits, visitVars, callVars, expand_it, file, CFG, importVars, run, exit, error, pstep,
                   localVars, rows, histVars, writerVars, sessionVars, data, ingredients,
                   nutrition_json, DETAILS_CACHE, orig, details, fetched, fetchRaised>>

\* max(1, NUT_RETRIES), line 662
expand_turns == IF NUT_RETRIES > 1 THEN NUT_RETRIES ELSE 1

\* lines 662-668: _expand_nutrition_sections lets nothing through, and neither
\* does the reading of the text (safe_js); a text without "nutrition", which is
\* what a dead session gives, sends the fetch into its second pass
Expand ==
    /\ Running /\ pc = "fd_expand"
    /\ IF expand_it < expand_turns
       THEN /\ expand_it' = expand_it + 1
            /\ UNCHANGED <<pc, rescan>>
       ELSE /\ expand_it' = 0
            /\ \/ /\ driver = "live"
                  /\ pc' = "fd_parse"
                  /\ rescan' = rescan
               \/ /\ rescan' = TRUE
                  /\ pc' = "fd_scroll"
    /\ UNCHANGED <<siteVars, grid_waits, visitVars, callVars, loops, file, CFG, importVars, run, exit, error, pstep,
                   localVars, rows, histVars, writerVars, sessionVars, detailVars>>

\* mutant: a record with nothing in it is not cached
FetchParse_nonempty ==
    /\ Running /\ pc = "fd_parse"
    /\ \E pg \in ProductPages :
          /\ details' = DetailRecord(pg)
          /\ DETAILS_CACHE' = IF DetailRecord(pg) = NoDetails THEN DETAILS_CACHE
                               ELSE (data.link :> DetailRecord(pg)) @@ DETAILS_CACHE
    /\ fetched' = Append(fetched, data.link)
    /\ pending' = "return"
    /\ pc' = "fd_finally"
    /\ rescan' = FALSE
    /\ UNCHANGED <<siteVars, grid_waits, visitVars, callVars, loops, expand_it, file, CFG, importVars, run, exit, error,
                   pstep, localVars, rows, histVars, writerVars, sessionVars, data, ingredients,
                   nutrition_json, orig, fetchRaised>>

\* lines 672-717: the text read is parsed (the other strategies let nothing
\* through) and the record is cached
FetchParse ==
    /\ Running /\ pc = "fd_parse"
    /\ \E pg \in ProductPages :
          /\ details' = DetailRecord(pg)
          /\ DETAILS_CACHE' = (data.link :> DetailRecord(pg)) @@ DETAILS_CACHE
    /\ fetched' = Append(fetched, data.link)
    /\ pending' = "return"
    /\ pc' = "fd_finally"
    /\ rescan' = FALSE
    /\ UNCHANGED <<siteVars, grid_waits, visitVars, callVars, loops, expand_it, file, CFG, importVars, run, exit, error,
                   pstep, localVars, rows, histVars, writerVars, sessionVars, data, ingredients,
                   nutrition_json, orig, fetchRaised>>

\* mutant: the context is closed after a normal return only
close_and_switch_back_on_return ==
    IF driver = "live" /\ pending = "return"
    THEN /\ windows' = windows \ {current}
         /\ current' = orig
    ELSE UNCHANGED <<windows, current>>

\* lines 719-723: close the current context and switch to the original one; on a
\* dead session both commands raise and are swallowed
close_and_switch_back ==
    IF driver = "live"
    THEN /\ windows' = windows \ {current}
         /\ current' = IF orig \in windows' THEN orig ELSE current
    ELSE UNCHANGED <<windows, current>>

\* mutant: the exception of the fetch is let through and the row is skipped
after_fetch_skipping ==
    IF pending = "return"
    THEN /\ ingredients' = ingredients_of(details)
         /\ nutrition_json' = nutrition_json_of(details)
         /\ fetchRaised' = FALSE
         /\ pc' = "write"
         /\ idx' = idx
    ELSE /\ fetchRaised' = TRUE
         /\ pc' = "tiles"
         /\ idx' = idx + 1
         /\ UNCHANGED <<ingredients, nutrition_json>>

\* lines 833-839: the fields of the record, or nothing when the fetch raised
after_fetch ==
    /\ IF pending = "return"
       THEN /\ ingredients' = ingredients_of(details)
            /\ nutrition_json' = nutrition_json_of(details)
            /\ fetchRaised' = FALSE
       ELSE /\ fetchRaised' = TRUE
            /\ UNCHANGED <<ingredients, nutrition_json>>
    /\ pc' = "write"
    /\ idx' = idx

\* the finally of lines 719-723, then the return to main
FetchFinally ==
    /\ Running /\ pc = "fd_finally"
    /\ close_and_switch_back
    /\ after_fetch
    /\ pending' = "none"
    /\ UNCHANGED <<siteVars, grid_waits, visitVars, callVars, scrollVars, file, CFG, importVars, run, exit, error, pstep, cats_all, categories,
                   ci, total_pages, first_page, page, page_it, tries, product_count,
                   pages_since_restart, rows, histVars, writerVars, driver, sessions, restarts,
                   data, DETAILS_CACHE, orig, details, fetched>>

\* lines 849-850
PageDone ==
    /\ Running /\ pc = "page_done"
    /\ completed' = completed \cup {<<cat_name, page>>}
    /\ pages_since_restart' = pages_since_restart + 1
    /\ pc' = IF pages_since_restart' % RESTART_EVERY_PAGES = 0 THEN "restart" ELSE "page_head"
    /\ UNCHANGED <<siteVars, grid_waits, visitVars, callVars, scrollVars, file, CFG, importVars, run, exit, error, pstep, cats_all, categories, ci,
                   total_pages, first_page, page, page_it, tries, product_count, idx, rows,
                   started, firstOpened, resumeDue, midPage, wrote, calls, persisted, resetDone, loopFailed,
                   writerVars, sessionVars, detailVars>>

\* mutant: the new session starts the category over
Restart_rewinding ==
    /\ Running /\ pc = "restart"
    /\ driver' = "live"
    /\ sessions' = (IF driver = "live" THEN sessions - 1 ELSE sessions) + 1
    /\ windows' = {"main"}
    /\ current' = "main"
    /\ restarts' = restarts + 1
    /\ pc' = "page_head"
    /\ page_it' = first_page
    /\ UNCHANGED <<siteVars, grid_waits, visitVars, callVars, scrollVars, file, CFG, importVars, run, exit, error, pstep,
                   cats_all, categories, ci, total_pages, first_page, page, tries, product_count,
                   idx, pages_since_restart, rows, histVars, writerVars, detailVars>>

\* mutant: the old session is not quit
Restart_leaky ==
    /\ Running /\ pc = "restart"
    /\ NewSession
    /\ restarts' = restarts + 1
    /\ pc' = "page_head"
    /\ UNCHANGED <<siteVars, grid_waits, visitVars, callVars, scrollVars, file, CFG, importVars, run, exit, error, pstep, localVars, rows, histVars,
                   writerVars, detailVars>>

\* lines 808-813 and 851-856, the hygiene restart: the session is quit (twice,
\* failures swallowed) and a new one is created
Restart ==
    /\ Running /\ pc = "restart"
    /\ driver' = "live"
    /\ sessions' = (IF driver = "live" THEN sessions - 1 ELSE sessions) + 1
    /\ windows' = {"main"}
    /\ current' = "main"
    /\ restarts' = restarts + 1
    /\ pc' = "page_head"
    /\ UNCHANGED <<siteVars, grid_waits, visitVars, callVars, scrollVars, file, CFG, importVars, run, exit, error, pstep, localVars, rows, histVars,
                   writerVars, detailVars>>

\* line 858
Nap ==
    /\ Running /\ pc = "nap"
    /\ pc' = "cat_head"
    /\ UNCHANGED <<siteVars, grid_waits, visitVars, callVars, scrollVars, file, CFG, importVars, run, exit, error, pstep, localVars, rows, histVars,
                   writerVars, sessionVars, detailVars>>

\* lines 860-865, reached without an exception
Finally ==
    /\ Running /\ pc = "finally"
    /\ Quit
    /\ closed' = TRUE
    /\ pc' = "reset"
    /\ UNCHANGED <<siteVars, grid_waits, visitVars, callVars, scrollVars, file, CFG, importVars, run, exit, error, pstep, localVars, rows, histVars,
                   out, attempt, headers, exists, is_new, slept, altFiles, locked, restarts, detailVars>>

\* lines 867-871
Reset ==
    /\ Running /\ pc = "reset"
    /\ \/ /\ pstep = 0
          /\ CFG' = [CFG EXCEPT !.active = "FALSE"]
          /\ pstep' = 1
          /\ calls' = calls \cup {<<NoCategory, 0>>}
          /\ UNCHANGED <<file, pc, wrote, persisted, resetDone>>
       \/ /\ pstep = 1
          /\ CFG' = [CFG EXCEPT !.category = NoCategory]
          /\ pstep' = 2
          /\ UNCHANGED <<file, pc, wrote, calls, persisted, resetDone>>
       \/ /\ pstep = 2
          /\ CFG' = [CFG EXCEPT !.page = 0]
          /\ pstep' = 3
          /\ UNCHANGED <<file, pc, wrote, calls, persisted, resetDone>>
       \/ /\ pstep = 3
          /\ file' = CFG
          /\ wrote' = TRUE
          /\ resetDone' = TRUE
          /\ pstep' = 0
          /\ pc' = "finished"
          /\ UNCHANGED <<CFG, calls, persisted>>
    /\ UNCHANGED <<siteVars, grid_waits, visitVars, callVars, scrollVars, importVars, run, exit, error, localVars, rows,
                   started, completed, firstOpened, resumeDue, midPage, loopFailed,
                   writerVars, sessionVars, detailVars>>

\* line 873 and the return of main
Finished ==
    /\ Running /\ pc = "finished"
    /\ exit' = "finished"
    /\ UNCHANGED <<siteVars, grid_waits, visitVars, callVars, scrollVars, file, CFG, importVars, run, error, pc, pstep, localVars, rows, histVars,
                   writerVars, sessionVars, detailVars>>


\* mutant: the exception is swallowed and main goes on to the reset
Crash_swallowed ==
    /\ Running /\ pc \in RaisingPcs
    /\ \E e \in Raises(pc) : error' = error
    /\ Quit
    /\ pc' = "reset"
    /\ loopFailed' = (pc \in LoopPcs)
    /\ closed' = (pc \in LoopPcs)
    /\ UNCHANGED <<siteVars, grid_waits, visitVars, callVars, scrollVars, file, CFG, importVars, run, exit, pstep, localVars, rows,
                   started, completed, firstOpened, resumeDue, midPage, wrote, calls, persisted, resetDone,
                   out, attempt, headers, exists, is_new, slept, altFiles, locked, restarts, detailVars>>

(***************************************************************************)
(* The ways a run is cut short.                                            *)
(***************************************************************************)
\* an exception of the browsing session or of the writer: it unwinds through
\* the with of line 760 or the finally of lines 860-865, where the session is
\* quit, and ends the process
Crash ==
    /\ Running /\ pc \in RaisingPcs
    /\ \E e \in Raises(pc) : error' = e
    /\ Quit
    /\ exit' = "crash"
    /\ loopFailed' = (pc \in LoopPcs)
    /\ closed' = (pc \in LoopPcs)
    /\ UNCHANGED <<siteVars, grid_waits, visitVars, callVars, scrollVars, file, CFG, importVars, run, pc, pstep, localVars, rows,
                   started, completed, firstOpened, resumeDue, midPage, wrote, calls, persisted, resetDone,
                   out, attempt, headers, exists, is_new, slept, altFiles, locked, restarts, detailVars>>


\* mutant: the handler saves the configuration without forcing Resume_Active
graceful_exit_unforced ==
    /\ CFG' = CFG
    /\ file' = CFG'
    /\ exit' = "interrupt"

\* graceful_exit (lines 729-738), the SIGINT handler
graceful_exit ==
    /\ CFG' = [CFG EXCEPT !.active = "TRUE"]
    /\ file' = CFG'
    /\ exit' = "interrupt"

\* SIGINT: SystemExit unwinds main like an exception that nothing catches
Interrupt ==
    /\ Running
    /\ graceful_exit
    /\ Quit
    /\ loopFailed' = (pc \in LoopPcs)
    /\ closed' = (closed \/ pc \in LoopPcs)
    /\ UNCHANGED <<siteVars, grid_waits, visitVars, callVars, scrollVars, importVars, run, error, pc, pstep, localVars, rows,
                   started, completed, firstOpened, resumeDue, midPage, wrote, calls, persisted, resetDone,
                   out, attempt, headers, exists, is_new, slept, altFiles, locked, restarts, detailVars>>

\* the browser of the session crashes while tiles are read or details fetched;
\* anywhere else the next command of the session raises, which is Crash
SessionDies ==
    /\ Running /\ driver = "live"
    /\ pc \in {"tiles", "fd_open"} \cup TryPcs
    /\ driver' = "dead"
    /\ sessions' = sessions - 1
    /\ windows' = {}
    /\ current' = "none"
    /\ UNCHANGED <<siteVars, grid_waits, visitVars, callVars, scrollVars, file, CFG, importVars, run, exit, error, pc, pstep, localVars, rows,
                   histVars, writerVars, restarts, detailVars>>

(***************************************************************************)
(* The next invocation of the program.                                     *)
(***************************************************************************)
\* the page the ended run was at, where the next one ought to start
NextDue ==
    IF exit \in {"finished", "nocats"} \/ pc \in AfterLoopPcs THEN StartOf(site)
    ELSE IF ci = 0 THEN resumeDue
    ELSE IF pc \in {"cat_persist", "cat_open"} \/ page_it = first_page
         THEN <<cat_name, FirstPage(cat_name)>>
         ELSE <<cat_name, page>>

Relaunch ==
    /\ ~Running /\ run < MaxRuns
    /\ run' = run + 1
    /\ exit' = "running" /\ error' = "none"
    /\ Import(file)
    /\ pc' = "main" /\ pstep' = 0
    /\ cats_all' = << >> /\ categories' = << >> /\ ci' = 0
    /\ total_pages' = 0 /\ first_page' = 0 /\ page' = 0 /\ page_it' = 0
    /\ tries' = 0 /\ product_count' = 0 /\ idx' = 0 /\ pages_since_restart' = 0
    /\ data' = NoTile /\ ingredients' = << >> /\ nutrition_json' = << >>
    /\ attempt' = 0 /\ orig' = "none" /\ pending' = "none" /\ details' = NoDetails
    /\ out' = "none"
    /\ driver' = "none" /\ sessions' = 0 /\ windows' = {} /\ current' = "none"
    /\ DETAILS_CACHE' = << >>
    /\ resumeDue' = NextDue
    /\ midPage' = (exit \in {"crash", "interrupt"} /\ pc \in ExtractPcs)
    /\ started' = {} /\ completed' = {} /\ firstOpened' = Nowhere
    /\ wrote' = FALSE /\ calls' = {} /\ persisted' = << >> /\ resetDone' = FALSE /\ loopFailed' = FALSE
    /\ restarts' = 0 /\ fetched' = << >> /\ fetchRaised' = FALSE
    /\ loops' = 0 /\ expand_it' = 0 /\ rescan' = FALSE
    /\ closed' = FALSE
    /\ is_new' = FALSE /\ slept' = << >> /\ grid_waits' = << >>
    /\ UNCHANGED <<siteVars, visitVars, callVars, file, rows, headers, exists, altFiles, locked>>

Next ==
    \/ Main \/ OpenCsv \/ WithD0 \/ Discover \/ Filter \/ Launch \/ CatHead \/ CatPersist
    \/ CatOpen \/ PageHead \/ PagePersist \/ PageOpen \/ Count \/ Recount \/ Branch
    \/ TileStep \/ WriteRow \/ PageDone \/ Restart \/ Nap \/ Finally \/ Reset \/ Finished
    \/ Crash \/ Interrupt \/ SessionDies \/ Relaunch

Spec == Init /\ [][Next]_vars

(***************************************************************************)
(* One invocation with the detail fetch switched on, on a site of one      *)
(* category.                                                               *)
(***************************************************************************)
InitDetails ==
    /\ site = <<"A">>
    /\ sitePages \in [Range(site) -> 1..MaxPages]
    /\ file = ResetCheckpoint
    /\ CFG = file
    /\ RESUME_ACTIVE = FALSE
    /\ RESUME_CATEGORY = file.category
    /\ RESUME_PAGE = file.page
    /\ FETCH_INGREDIENTS \in BOOLEAN /\ FETCH_NUTRITION \in BOOLEAN
    /\ FETCH_INGREDIENTS \/ FETCH_NUTRITION
    /\ Process0
    /\ NoVisit
    /\ rows = {} /\ headers = 0 /\ exists = FALSE /\ is_new = FALSE /\ slept = << >> /\ locked = FALSE /\ closed = FALSE
    /\ altFiles = [r \in 1..MaxRuns |-> NoAltFile]
    /\ resumeDue = DueOf(site, file) /\ midPage = FALSE

NextDetails ==
    \/ Main \/ OpenCsv \/ WithD0 \/ Discover \/ Filter \/ Launch \/ CatHead \/ CatPersist
    \/ CatOpen \/ PageHead \/ PagePersist \/ PageOpen \/ Count \/ Recount \/ Branch
    \/ TileStep \/ Fetch \/ FetchOpen \/ FetchGet \/ Scroll \/ Expand \/ FetchParse
    \/ FetchFinally \/ WriteRow
    \/ PageDone \/ Restart \/ Nap \/ Finally \/ Reset \/ Finished
    \/ Crash \/ Interrupt \/ SessionDies

SpecDetails == InitDetails /\ [][NextDetails]_vars

(***************************************************************************)
(* fetch_details_for_link on its own: MaxCalls calls in a row, each for a  *)
(* link of a tile or for the empty link, on a session that is alive or     *)
(* dead, with a cache that is empty or holds the record of one link.       *)
(***************************************************************************)
MaxCalls == 2

\* the caches a call can find
Caches ==
    {<< >>} \cup {l :> r : l \in {<<"h", "/", "/", "m">>}, r \in ProductPages}

\* the tiles whose links are passed
CallTiles == {Tile(<<"M", "i", "l", "k">>, <<"$", "4">>, << >>, << >>, << >>, << >>, l) : l \in TileLinks}

InitFetch ==
    /\ site = << >> /\ sitePages = << >>
    /\ file = ResetCheckpoint
    /\ CFG = file
    /\ RESUME_ACTIVE = FALSE
    /\ RESUME_CATEGORY = file.category
    /\ RESUME_PAGE = file.page
    /\ FETCH_INGREDIENTS \in BOOLEAN /\ FETCH_NUTRITION \in BOOLEAN
    /\ NoVisit
    /\ run = 1 /\ exit = "running" /\ error = "none"
    /\ pc = "fetch" /\ pstep = 0
    /\ cats_all = << >> /\ categories = << >> /\ ci = 0
    /\ total_pages = 0 /\ first_page = 0 /\ page = 0 /\ page_it = 0
    /\ tries = 0 /\ product_count = 0 /\ idx = 0 /\ pages_since_restart = 0
    /\ data \in CallTiles /\ ingredients = << >> /\ nutrition_json = << >>
    /\ attempt = 0 /\ orig = "none" /\ pending = "none" /\ details = NoDetails
    /\ loops = 0 /\ expand_it = 0 /\ rescan = FALSE /\ grid_waits = << >>
    /\ out = "none" /\ rows = {} /\ headers = 0 /\ exists = FALSE /\ is_new = FALSE /\ slept = << >> /\ locked = FALSE /\ closed = FALSE
    /\ altFiles = [r \in 1..MaxRuns |-> NoAltFile]
    /\ driver \in {"live", "dead"}
    /\ sessions = (IF driver = "live" THEN 1 ELSE 0)
    /\ windows = (IF driver = "live" THEN {"main"} ELSE {})
    /\ current = (IF driver = "live" THEN "main" ELSE "none")
    /\ DETAILS_CACHE \in Caches
    /\ fetched = (IF DETAILS_CACHE = << >> THEN << >> ELSE <<(CHOOSE l \in DOMAIN DETAILS_CACHE : TRUE)>>)
    /\ started = {} /\ completed = {} /\ firstOpened = Nowhere /\ resumeDue = Nowhere
    /\ midPage = FALSE
    /\ wrote = FALSE /\ calls = {} /\ persisted = << >> /\ resetDone = FALSE /\ loopFailed = FALSE
    /\ restarts = 0 /\ fetchRaised = FALSE
    /\ args = << >> /\ returned = NotCalled

\* the caller comes back with another link (lines 828-833 for the next tile)
CallAgain ==
    /\ Running /\ pc = "write" /\ idx + 1 < MaxCalls
    /\ idx' = idx + 1
    /\ \E t \in CallTiles : data' = t
    /\ ingredients' = << >> /\ nutrition_json' = << >> /\ fetchRaised' = FALSE
    /\ pc' = "fetch"
    /\ UNCHANGED <<siteVars, grid_waits, visitVars, callVars, scrollVars, file, CFG, importVars, run, exit, error, pstep, cats_all, categories, ci,
                   total_pages, first_page, page, page_it, tries, product_count,
                   pages_since_restart, rows, histVars, writerVars, sessionVars,
                   DETAILS_CACHE, pending, orig, details, fetched>>

NextFetch ==
    \/ Fetch \/ FetchOpen \/ FetchGet \/ Scroll \/ Expand \/ FetchParse \/ FetchFinally
    \/ SessionDies \/ CallAgain

SpecFetch == InitFetch /\ [][NextFetch]_vars



(***************************************************************************)
(* One invocation whose primary output file may be locked by another       *)
(* program, on a site of one category.                                     *)
(***************************************************************************)
InitWriter ==
    /\ site = <<"A">>
    /\ sitePages \in [Range(site) -> 1..MaxPages]
    /\ file = ResetCheckpoint
    /\ CFG = file
    /\ RESUME_ACTIVE = FALSE
    /\ RESUME_CATEGORY = file.category
    /\ RESUME_PAGE = file.page
    /\ FETCH_INGREDIENTS = FALSE /\ FETCH_NUTRITION = FALSE
    /\ Process0
    /\ NoVisit
    /\ rows \in SUBSET {RowOf("A", t, << >>, << >>) : t \in {d \in DrawnTiles : TileValid(d)}}
    /\ headers = IF rows = {} THEN 0 ELSE 1
    /\ exists = (headers = 1) /\ is_new = FALSE /\ slept = << >>
    /\ locked \in BOOLEAN /\ closed = FALSE
    /\ altFiles = [r \in 1..MaxRuns |-> NoAltFile]
    /\ resumeDue = DueOf(site, file) /\ midPage = FALSE

NextWriter ==
    \/ Main \/ OpenCsv \/ Unlock \/ WithD0 \/ Discover \/ Filter \/ Launch \/ CatHead
    \/ CatPersist \/ CatOpen \/ PageHead \/ PagePersist \/ PageOpen \/ Count \/ Recount
    \/ Branch \/ TileStep \/ WriteRow \/ PageDone \/ Restart \/ Nap \/ Finally \/ Reset
    \/ Finished \/ Crash \/ Interrupt \/ SessionDies

SpecWriter == InitWriter /\ [][NextWriter]_vars

(***************************************************************************)
(* One invocation that keeps running and is sent no signal: the process    *)
(* takes its next step as long as it has one (every call of it returns or  *)
(* raises), while the crash of the browser and the release of the output   *)
(* file by the other program are left to happen or not.                    *)
(***************************************************************************)
InitLive ==
    /\ site = <<"A">>
    /\ sitePages \in [Range(site) -> 1..MaxPages]
    /\ file = ResetCheckpoint
    /\ CFG = file
    /\ RESUME_ACTIVE = FALSE
    /\ RESUME_CATEGORY = file.category
    /\ RESUME_PAGE = file.page
    /\ FETCH_INGREDIENTS = TRUE /\ FETCH_NUTRITION = FALSE
    /\ Process0
    /\ NoVisit
    /\ rows = {} /\ headers = 0 /\ exists = FALSE /\ is_new = FALSE /\ slept = << >> /\ locked \in BOOLEAN /\ closed = FALSE
    /\ altFiles = [r \in 1..MaxRuns |-> NoAltFile]
    /\ resumeDue = DueOf(site, file) /\ midPage = FALSE

StepLive ==
    \/ Main \/ OpenCsv \/ WithD0 \/ Discover \/ Filter \/ Launch \/ CatHead \/ CatPersist
    \/ CatOpen \/ PageHead \/ PagePersist \/ PageOpen \/ Count \/ Recount \/ Branch
    \/ TileStep \/ Fetch \/ FetchOpen \/ FetchGet \/ Scroll \/ Expand \/ FetchParse
    \/ FetchFinally \/ WriteRow \/ PageDone \/ Restart \/ Nap \/ Finally \/ Reset \/ Finished
    \/ Crash

NextLive == StepLive \/ SessionDies \/ Unlock

SpecLive == InitLive /\ [][NextLive]_vars /\ WF_vars(StepLive)

(***************************************************************************)
(* One invocation followed tile by tile: the tiles read and the rows       *)
(* written by the visit in hand are kept, on a site of one category of as  *)
(* many pages as a hygiene restart takes, whose primary output file may be *)
(* locked by another program.                                              *)
(***************************************************************************)
InitVisit ==
    /\ site = <<"A">>
    /\ sitePages = [c \in Range(site) |-> RESTART_EVERY_PAGES]
    /\ file = ResetCheckpoint
    /\ CFG = file
    /\ RESUME_ACTIVE = FALSE
    /\ RESUME_CATEGORY = file.category
    /\ RESUME_PAGE = file.page
    /\ FETCH_INGREDIENTS = FALSE /\ FETCH_NUTRITION = FALSE
    /\ Process0
    /\ followed = TRUE /\ seen = << >> /\ appended = << >>
    /\ rows = {} /\ headers = 0 /\ exists = FALSE /\ is_new = FALSE /\ slept = << >>
    /\ locked \in BOOLEAN /\ closed = FALSE
    /\ altFiles = [r \in 1..MaxRuns |-> NoAltFile]
    /\ resumeDue = DueOf(site, file) /\ midPage = FALSE

SpecVisit == InitVisit /\ [][NextWriter]_vars

(***************************************************************************)
(* filter_for_resume on its own: every menu of up to MaxFilterLen entries, *)
(* names repeated or not, against every checkpoint.                        *)
(***************************************************************************)
FilterEntries == [name : {"A", "B"}, href : {<<"/shop/browse/", "x">>, <<"/shop/browse/", "y">>}]

FilterCheckpoints ==
    [active : {"TRUE", "FALSE"}, category : {"A", "B", GoneCategory, NoCategory}, page : {1}]

InitFilter ==
    /\ site = << >> /\ sitePages = << >>
    /\ file \in FilterCheckpoints
    /\ CFG = file
    /\ RESUME_ACTIVE = (file.active = "TRUE")
    /\ RESUME_CATEGORY = file.category
    /\ RESUME_PAGE = file.page
    /\ FETCH_INGREDIENTS = FALSE /\ FETCH_NUTRITION = FALSE
    /\ NoVisit
    /\ run = 1 /\ exit = "running" /\ error = "none"
    /\ pc = "filter" /\ pstep = 0
    /\ cats_all \in SeqsUpTo(FilterEntries, MaxFilterLen)
    /\ categories = << >> /\ ci = 0
    /\ total_pages = 0 /\ first_page = 0 /\ page = 0 /\ page_it = 0
    /\ tries = 0 /\ product_count = 0 /\ idx = 0 /\ pages_since_restart = 0
    /\ data = NoTile /\ ingredients = << >> /\ nutrition_json = << >>
    /\ attempt = 0 /\ orig = "none" /\ pending = "none" /\ details = NoDetails
    /\ loops = 0 /\ expand_it = 0 /\ rescan = FALSE /\ grid_waits = << >>
    /\ out = "primary" /\ rows = {} /\ headers = 1 /\ exists = TRUE /\ is_new = FALSE
    /\ slept = << >>
    /\ locked = FALSE /\ closed = FALSE
    /\ altFiles = [r \in 1..MaxRuns |-> NoAltFile]
    /\ driver = "none" /\ sessions = 0 /\ windows = {} /\ current = "none"
    /\ DETAILS_CACHE = << >>
    /\ started = {} /\ completed = {} /\ firstOpened = Nowhere /\ resumeDue = Nowhere
    /\ midPage = FALSE
    /\ wrote = FALSE /\ calls = {} /\ persisted = << >> /\ resetDone = FALSE /\ loopFailed = FALSE
    /\ restarts = 0 /\ fetched = << >> /\ fetchRaised = FALSE
    /\ args = << >> /\ returned = NotCalled

SpecFilter == InitFilter /\ [][Filter]_vars

(***************************************************************************)
(* parse_ingredients_from_text (lines 562-565) and _slice_section (lines   *)
(* 519-560) for the ingredients heading.  The texts of the model hold      *)
(* ASCII letters, and "\n" is their only line boundary.                    *)
(***************************************************************************)
UpperChars == <<"A", "B", "C", "D", "E", "F", "G", "H", "I", "J", "K", "L", "M", "N", "O", "P", "Q", "R", "S", "T", "U", "V", "W", "X", "Y", "Z">>

LowerChars == <<"a", "b", "c", "d", "e", "f", "g", "h", "i", "j", "k", "l", "m", "n", "o", "p", "q", "r", "s", "t", "u", "v", "w", "x", "y", "z">>

IsUpper(ch) == \E k \in 1..26 : UpperChars[k] = ch

IsLower(ch) == \E k \in 1..26 : LowerChars[k] = ch

IsCased(ch) == IsUpper(ch) \/ IsLower(ch)

\* s.lower()
lower(s) ==
    [i \in 1..Len(s) |->
        IF IsUpper(s[i]) THEN LowerChars[CHOOSE k \in 1..26 : UpperChars[k] = s[i]] ELSE s[i]]

\* s.startswith(prefix)
startswith(s, prefix) == MatchAt(s, prefix, 0)

\* s.endswith(suffix)
endswith(s, suffix) == Len(suffix) <= Len(s) /\ MatchAt(s, suffix, Len(s) - Len(suffix))

\* s.find(sub, start)
find_from(s, sub, start) ==
    LET i == find(slice_from(s, start), sub) IN IF i = -1 THEN -1 ELSE i + start

\* s.isupper()
isupper(s) == (\E i \in 1..Len(s) : IsUpper(s[i])) /\ (\A i \in 1..Len(s) : ~IsLower(s[i]))

\* s.istitle()
istitle(s) ==
    /\ \E i \in 1..Len(s) : IsCased(s[i])
    /\ \A i \in 1..Len(s) :
          /\ IsUpper(s[i]) => (i = 1 \/ ~IsCased(s[i - 1]))
          /\ IsLower(s[i]) => (i > 1 /\ IsCased(s[i - 1]))

STR_NEWLINE == <<"\n">>

\* s.splitlines()
splitlines(s) ==
    IF s = << >> THEN << >>
    ELSE LET parts == split(s, STR_NEWLINE)
         IN  IF parts[Len(parts)] = << >> THEN SubSeq(parts, 1, Len(parts) - 1) ELSE parts

\* "\n".join(lines)
RECURSIVE join_lines(_)
join_lines(lines) ==
    IF lines = << >> THEN << >>
    ELSE IF Len(lines) = 1 THEN lines[1]
    ELSE lines[1] \o STR_NEWLINE \o join_lines(Tail(lines))

\* re.sub(r'[ \t]+', ' ', s)
RECURSIVE squeeze_blanks(_)
squeeze_blanks(s) ==
    IF s = << >> THEN << >>
    ELSE IF Head(s) \in {" ", "\t"}
         THEN IF Len(s) > 1 /\ s[2] \in {" ", "\t"}
              THEN squeeze_blanks(Tail(s))
              ELSE <<" ">> \o squeeze_blanks(Tail(s))
         ELSE <<Head(s)>> \o squeeze_blanks(Tail(s))

STR_INGREDIENTS == <<"i", "n", "g", "r", "e", "d", "i", "e", "n", "t", "s">>
STR_INGREDIENT == <<"i", "n", "g", "r", "e", "d", "i", "e", "n", "t">>
STR_COLON == <<":">>
STR_DASH_BLANK == <<"-", " ">>

\* the character U+2022
Bullet == "U+2022"

\* line 331
NEXT_HEADINGS ==
    <<<<"a", "l", "l", "e", "r", "g", "e", "n">>,
      <<"a", "l", "l", "e", "r", "g", "y">>,
      <<"c", "o", "n", "t", "a", "i", "n", "s">>,
      <<"m", "a", "y", " ", "c", "o", "n", "t", "a", "i", "n">>,
      <<"n", "u", "t", "r", "i", "t", "i", "o", "n">>,
      <<"n", "u", "t", "r", "i", "t", "i", "o", "n", "a", "l">>,
      <<"s", "t", "o", "r", "a", "g", "e">>,
      <<"d", "i", "r", "e", "c", "t", "i", "o", "n", "s">>,
      <<"w", "a", "r", "n", "i", "n", "g">>,
      <<"w", "a", "r", "n", "i", "n", "g", "s">>,
      <<"c", "o", "u", "n", "t", "r", "y", " ", "o", "f", " ", "o", "r", "i", "g", "i", "n">>,
      <<"s", "e", "r", "v", "i", "n", "g", "s">>,
      <<"p", "r", "e", "p", "a", "r", "a", "t", "i", "o", "n">>,
      <<"u", "s", "a", "g", "e">>,
      <<"s", "a", "f", "e", "t", "y">>,
      <<"m", "a", "n", "u", "f", "a", "c", "t", "u", "r", "e", "r">>,
      <<"b", "r", "a", "n", "d">>,
      <<"p", "r", "o", "d", "u", "c", "t", " ", "w", "a", "r", "n", "i", "n", "g", "s">>,
      <<"i", "n", "f", "o", "r", "m", "a", "t", "i", "o", "n">>,
      <<"d", "i", "e", "t", "a", "r", "y">>,
      <<"a", "d", "v", "i", "s", "o", "r", "y">>,
      <<"i", "n", "g", "r", "e", "d", "i", "e", "n", "t", "s">>>>

\* index of the first character at or after k that \s does not match
blank_run_end(t, k) ==
    IF \E e \in k..(Len(t) - 1) : t[e + 1] \notin Whitespace
    THEN CHOOSE e \in k..(Len(t) - 1) :
             t[e + 1] \notin Whitespace /\ \A f \in k..(e - 1) : t[f + 1] \in Whitespace
    ELSE Len(t)

\* where $ matches under re.MULTILINE
AtLineEnd(t, e) == e = Len(t) \/ t[e + 1] = "\n"

\* where ^ matches under re.MULTILINE
AtLineStart(t, i) == i = 0 \/ t[i] = "\n"

MaxOf(S) == CHOOSE x \in S : \A y \in S : y <= x

MinOf(S) == CHOOSE x \in S : \A y \in S : x <= y

\* end of the match of  ingredients\s*[:\-]?\s*$  for the word at j, -1 for no
\* match: the quantifiers are greedy, so the match ends at the last place the
\* engine can reach where a line ends
heading_end(t, j) ==
    LET k == j + Len(STR_INGREDIENTS)
        k2 == blank_run_end(t, k)
        mark == k2 < Len(t) /\ t[k2 + 1] \in {":", "-"}
        after == IF mark THEN {e \in (k2 + 1)..blank_run_end(t, k2 + 1) : AtLineEnd(t, e)} ELSE {}
        before == {e \in k..k2 : AtLineEnd(t, e)}
    IN  IF after # {} THEN MaxOf(after)
        ELSE IF before # {} THEN MaxOf(before)
        ELSE -1

\* ING_HEADING_PATTERN (line 327) matches with its word at j:  ^\s*  before it
heading_at(t, j) ==
    /\ MatchAt(lower(t), STR_INGREDIENTS, j)
    /\ \E i \in 0..j : AtLineStart(t, i) /\ \A f \in i..(j - 1) : t[f + 1] \in Whitespace
    /\ heading_end(t, j) # -1

\* ING_HEADING_PATTERN.search(t): m.end(), -1 for no match
ING_HEADING_PATTERN_search(t) ==
    LET words == {j \in 0..Len(t) : heading_at(t, j)}
    IN  IF words = {} THEN -1 ELSE heading_end(t, MinOf(words))

\* lines 550-551
heading_like(s) ==
    /\ Len(s) <= 60
    /\ istitle(s) \/ isupper(s)
    /\ ~endswith(s, STR_COLON)
    /\ ~(startswith(lower(s), <<Bullet>>) \/ startswith(lower(s), STR_DASH_BLANK))

\* lines 535-560
slice_tail(tail) ==
    LET low_tail == lower(tail)
        candidates ==
            ({find(low_tail, STR_NEWLINE \o NEXT_HEADINGS[n]) : n \in 1..Len(NEXT_HEADINGS)}
                 \cup {0 : n \in {m \in 1..Len(NEXT_HEADINGS) :
                                      startswith(low_tail, NEXT_HEADINGS[m])}}) \ {-1}
        lines == splitlines(tail)
        cuts == {i \in 1..(Len(lines) - 1) :
                    i < 120 /\ strip(lines[i + 1]) # << >> /\ heading_like(strip(lines[i + 1]))}
        cut_at_chars == IF cuts = {} THEN -1 ELSE Len(join_lines(SubSeq(lines, 1, MinOf(cuts))))
        cand_min == IF candidates = {} THEN -1 ELSE MinOf(candidates)
        next_idx == IF cut_at_chars # -1 /\ (cand_min = -1 \/ cut_at_chars < cand_min)
                    THEN cut_at_chars ELSE cand_min
    IN  IF next_idx = -1 THEN strip(tail) ELSE strip(slice(tail, 0, next_idx))

\* _slice_section(text, ING_HEADING_PATTERN), lines 519-560
slice_section(text) ==
    LET t == replace(text, <<"\r">>, << >>)
        m_end == ING_HEADING_PATTERN_search(t)
        pos == find(lower(t), STR_INGREDIENT)
        line_end == find_from(t, STR_NEWLINE, pos)
        start_idx == IF m_end # -1 THEN m_end
                     ELSE IF line_end # -1 THEN line_end + 1 ELSE pos
    IN  IF text = << >> THEN << >>
        ELSE IF m_end = -1 /\ pos = -1 THEN << >>
        ELSE slice_tail(lstrip(slice_from(t, start_idx)))

\* lines 562-565
parse_ingredients_from_text(text) ==
    LET sect == slice_section(text)
    IN  IF sect = << >> THEN << >> ELSE strip(squeeze_blanks(sect))

(***************************************************************************)
(* A function called on its own.  No process of main is running: args are  *)
(* the arguments of the call and returned is its value; an exception that  *)
(* leaves the function ends the call with error set.                       *)
(***************************************************************************)
CallState ==
    /\ site = << >> /\ sitePages = << >>
    /\ file = ResetCheckpoint
    /\ CFG = file
    /\ RESUME_ACTIVE = FALSE
    /\ RESUME_CATEGORY = file.category
    /\ RESUME_PAGE = file.page
    /\ NoVisit
    /\ run = 1 /\ exit = "running" /\ error = "none"
    /\ pstep = 0
    /\ cats_all = << >> /\ categories = << >> /\ ci = 0
    /\ total_pages = 0 /\ first_page = 0 /\ page = 0 /\ page_it = 0
    /\ tries = 0 /\ product_count = 0 /\ idx = 0 /\ pages_since_restart = 0
    /\ data = NoTile /\ ingredients = << >> /\ nutrition_json = << >>
    /\ attempt = 0 /\ orig = "none" /\ pending = "none" /\ details = NoDetails
    /\ loops = 0 /\ expand_it = 0 /\ rescan = FALSE /\ grid_waits = << >>
    /\ out = "none" /\ rows = {} /\ headers = 0 /\ exists = FALSE /\ is_new = FALSE /\ slept = << >> /\ locked = FALSE /\ closed = FALSE
    /\ altFiles = [r \in 1..MaxRuns |-> NoAltFile]
    /\ driver = "none" /\ sessions = 0 /\ windows = {} /\ current = "none"
    /\ DETAILS_CACHE = << >>
    /\ started = {} /\ completed = {} /\ firstOpened = Nowhere /\ resumeDue = Nowhere
    /\ midPage = FALSE
    /\ wrote = FALSE /\ calls = {} /\ persisted = << >> /\ resetDone = FALSE /\ loopFailed = FALSE
    /\ restarts = 0 /\ fetched = << >> /\ fetchRaised = FALSE
    /\ returned = NotCalled

InitCall == CallState /\ FETCH_INGREDIENTS = FALSE /\ FETCH_NUTRITION = FALSE

\* the call returns r, or is left by the exception r
Return(r) ==
    /\ IF r \in Exceptions
       THEN /\ error' = r[1] /\ exit' = "crash"
            /\ returned' = returned
       ELSE /\ returned' = r
            /\ UNCHANGED <<error, exit>>
    /\ pc' = "returned"
    /\ UNCHANGED <<siteVars, grid_waits, visitVars, scrollVars, file, CFG, importVars, run, pstep, localVars, detailVars,
                   rows, writerVars, sessionVars, histVars, args>>

(***************************************************************************)
(* normalize_best_price on its own: every item price, unit price and promo *)
(* text below.                                                             *)
(***************************************************************************)
PROMO_NONE == << >>
PROMO_SAVE == <<"S", "a", "v", "e", " ", "$", "1">>
PROMO_WAS == <<"W", "a", "s", " ", "$", "5">>
PROMO_WAS_SAVE == <<"W", "a", "s", " ", "$", "5", ".", "5", "0", " ", "-", " ", "S", "a", "v", "e", " ", "$", "1">>
PROMO_RANGE_WAS == <<"R", "a", "n", "g", "e", " ", "w", "a", "s", " ", "$", "3", " ", "-", " ", "$", "4">>
PROMO_WAS_BARE == <<"W", "a", "s", " ">>
PROMO_N_FOR == <<"2", " ", "f", "o", "r", " ", "$", "5">>
PROMO_MEMBER_M_FOR_N == <<"M", "e", "m", "b", "e", "r", " ", "P", "r", "i", "c", "e", " ", "$", "1", "0", " ", "f", "o", "r", " ", "4", " ", "-", " ", "$", "2", ".", "5", "0", " ", "e", "a">>
PROMO_MEMBER_N_FOR_M == <<"M", "e", "m", "b", "e", "r", " ", "P", "r", "i", "c", "e", " ", "4", " ", "f", "o", "r", " ", "$", "1", "0", " ", "-", " ", "$", "2", ".", "5", "0", " ", "e", "a">>
PROMO_THIRDS == <<"3", " ", "f", "o", "r", " ", "$", "1", "0">>
PROMO_NO_TOTAL == <<"2", " ", "f", "o", "r", " ", "$", "x", " ", "-", " ", "$", "1", " ", "e", "a">>
PROMO_NO_QTY == <<"B", "u", "y", " ", "f", "o", "r", " ", "$", "5", " ", "-", " ", "$", "2", " ", "e", "a">>
PROMO_SUPERSCRIPT == <<SuperscriptTwo, " ", "f", "o", "r", " ", "$", "5", " ", "-", " ", "$", "2", " ", "e", "a">>
PROMO_MEMBER_ONLY == <<"M", "e", "m", "b", "e", "r", " ", "P", "r", "i", "c", "e", " ", "$", "4">>
PROMO_ZERO_QTY == <<"0", " ", "f", "o", "r", " ", "$", "5">>
PROMO_ZERO_TOTAL == <<"2", " ", "f", "o", "r", " ", "$", "0">>
PROMO_WAS_N_FOR == <<"W", "a", "s", " ", "$", "6", " ", "-", " ", "2", " ", "f", "o", "r", " ", "$", "9">>
PROMO_WAS_NO_DOLLAR == <<"W", "a", "s", " ", "5", ".", "0", "0">>
PROMO_WAS_DOLLAR_LATE == <<"W", "a", "s", " ", "5", " ", "-", " ", "S", "a", "v", "e", " ", "$", "1">>

PromoTexts ==
    {PROMO_NONE, PROMO_SAVE, PROMO_WAS, PROMO_WAS_SAVE, PROMO_RANGE_WAS, PROMO_WAS_BARE,
     PROMO_N_FOR, PROMO_MEMBER_M_FOR_N, PROMO_MEMBER_N_FOR_M, PROMO_THIRDS, PROMO_NO_TOTAL,
     PROMO_NO_QTY, PROMO_SUPERSCRIPT, PROMO_MEMBER_ONLY, PROMO_ZERO_QTY, PROMO_ZERO_TOTAL,
     PROMO_WAS_N_FOR, PROMO_WAS_NO_DOLLAR, PROMO_WAS_DOLLAR_LATE}

ItemPrices == {<<"$", "1", "2", ".", "0", "0">>, <<"$", "4">>}

UnitPrices == {<<"$", "3", ".", "0", "0", "/", "e", "a">>, << >>}

InitNormalize ==
    /\ InitCall
    /\ pc = "normalize"
    /\ args \in ItemPrices \X UnitPrices \X PromoTexts

Normalize ==
    /\ pc = "normalize"
    /\ Return(normalize_best_price(args[1], args[2], args[3]))

SpecNormalize == InitNormalize /\ [][Normalize]_vars

(***************************************************************************)
(* parse_ingredients_from_text on its own: the page texts made of an       *)
(* optional first line, a heading, a content and what follows it.          *)
(***************************************************************************)
IngredientPrefixes == {<< >>, <<"A", "b", "o", "u", "t", "\n">>}

\* the heading on a line of its own, or followed on its line by the content
IngredientHeadings ==
    {<<"I", "n", "g", "r", "e", "d", "i", "e", "n", "t", "s", "\n">>,
     <<"I", "n", "g", "r", "e", "d", "i", "e", "n", "t", "s", ":", "\n">>,
     <<"I", "N", "G", "R", "E", "D", "I", "E", "N", "T", "S", " ", "-", " ", "\n">>,
     <<"I", "n", "g", "r", "e", "d", "i", "e", "n", "t", "s", ":", " ">>,
     <<"I", "n", "g", "r", "e", "d", "i", "e", "n", "t", " ", "l", "i", "s", "t", "\n">>,
     << >>}

IngredientBodies ==
    {<<"w", "h", "e", "a", "t", ",", " ", "s", "a", "l", "t">>,
     <<"W", "h", "e", "a", "t", " ", "F", "l", "o", "u", "r", "\n", "s", "a", "l", "t">>,
     <<"w", "h", "e", "a", "t", " ", "\t", " ", "s", "a", "l", "t">>,
     << >>}

\* what follows the content: nothing, or the heading of the next section
IngredientNexts ==
    {<< >>,
     <<"\n", "A", "l", "l", "e", "r", "g", "e", "n", ":", " ", "c", "o", "n", "t", "a", "i", "n", "s", " ", "g", "l", "u", "t", "e", "n">>,
     <<"\n", "S", "t", "o", "r", "a", "g", "e", "\n", "c", "o", "o", "l">>,
     <<"\n", "M", "a", "d", "e", " ", "W", "i", "t", "h", " ", "L", "o", "v", "e", "\n", "x">>}

InitIngredients ==
    /\ InitCall
    /\ pc = "parse_ingredients"
    /\ args \in {<<a \o h \o b \o n>> : a \in IngredientPrefixes, h \in IngredientHeadings,
                                         b \in IngredientBodies, n \in IngredientNexts}

ParseIngredients ==
    /\ pc = "parse_ingredients"
    /\ Return(parse_ingredients_from_text(args[1]))

SpecIngredients == InitIngredients /\ [][ParseIngredients]_vars

(***************************************************************************)
(* open_category_page and get_total_pages on their own: the grid appears   *)
(* within GRID_TIMEOUT or not, and the pagination indicator does not       *)
(* appear within its 3 s or shows one of the texts below.                  *)
(***************************************************************************)
\* lines 245-255 after driver.get: the wait of lines 249-252 raises
\* TimeoutException when the grid does not appear
open_category_page(grid) ==
    except_of(IF grid = "timeout" THEN TimeoutException ELSE None, {TimeoutException}, None)

\* lines 238-244: ind is the TimeoutException of the wait, or the innerText of
\* the indicator
get_total_pages_of(ind) ==
    LET t == strip(ind)
        shown == IF ind = TimeoutException THEN TimeoutException
                 ELSE IF t # << >> /\ \A i \in 1..Len(t) : isdigit(t[i])
                      THEN IF AllDigits(t) THEN Integer(int_of(t)) ELSE ValueError
                      ELSE Integer(1)
    IN  except_of(shown, {TimeoutException, ValueError}, Integer(1))

PageCountChars == {"0", "1", "2", " ", "a", SuperscriptTwo}
MaxCountLen == 3

InitPages ==
    /\ InitCall
    /\ pc = "open_category_page"
    /\ args \in {"present", "timeout"} \X
                 ({TimeoutException} \cup SeqsUpTo(PageCountChars, MaxCountLen))

OpenCategoryPage ==
    /\ pc = "open_category_page"
    /\ IF open_category_page(args[1]) \in Exceptions
       THEN Return(open_category_page(args[1]))
       ELSE /\ pc' = "get_total_pages"
            /\ UNCHANGED <<siteVars, grid_waits, visitVars, scrollVars, file, CFG, importVars, run, pstep,
                           localVars, detailVars, rows, writerVars, sessionVars, histVars,
                           args, returned, exit, error>>

GetTotalPages ==
    /\ pc = "get_total_pages"
    /\ Return(get_total_pages_of(args[2]))

NextPages == OpenCategoryPage \/ GetTotalPages

SpecPages == InitPages /\ [][NextPages]_vars

(***************************************************************************)
(* The nutrition strategies of fetch_details_for_link (lines 675-715) on   *)
(* their own, with FetchNutrition on.  A product page is what each         *)
(* strategy finds on it: the table parsed from its text, what hunt finds   *)
(* in each of its script blobs, and the table parsed from its HTML table.  *)
(***************************************************************************)
STR_RAW == <<"r", "a", "w">>

TextTable == <<[key |-> STR_ENERGY, value |-> STR_9KJ]>>
BlobTable == <<[key |-> <<"c", "a", "l">>, value |-> <<"2">>]>>
OtherBlobTable == <<[key |-> <<"f", "a", "t">>, value |-> <<"1">>]>>
HtmlTable == <<[key |-> <<"s", "a", "l", "t">>, value |-> <<"3">>]>>

\* a blob that json.loads rejects, one in which hunt finds nothing, one whose
\* nutrition member is a text, and those with a dict, empty or not
Blobs ==
    {[kind |-> "invalid", nut |-> << >>], [kind |-> "none", nut |-> << >>],
     [kind |-> "text", nut |-> << >>], [kind |-> "dict", nut |-> << >>],
     [kind |-> "dict", nut |-> BlobTable], [kind |-> "dict", nut |-> OtherBlobTable]}

MaxBlobs == 2

\* table: "none" when the script finds no table, else what
\* parse_nutrition_from_table makes of it
NutritionPages ==
    [text : {NoNutrition, TextTable}, blobs : SeqsUpTo(Blobs, MaxBlobs),
     table : {[found |-> FALSE, parsed |-> NoNutrition], [found |-> TRUE, parsed |-> NoNutrition],
              [found |-> TRUE, parsed |-> HtmlTable]}]

\* mutant: the result so far is taken for empty
not_nutrition_always(n) == TRUE

\* lines 678 and 708: not nutrition
not_nutrition(n) == n = NoNutrition

\* lines 688-706: the first blob in which hunt finds a non-empty dict
RECURSIVE hunt_blobs(_, _)
hunt_blobs(blobs, i) ==
    IF i > Len(blobs) THEN NoNutrition
    ELSE IF blobs[i].kind = "dict" /\ blobs[i].nut # << >>
         THEN <<[key |-> STR_RAW, value |-> blobs[i].nut]>>
         ELSE hunt_blobs(blobs, i + 1)

InitNutrition ==
    /\ CallState
    /\ FETCH_INGREDIENTS = FALSE /\ FETCH_NUTRITION = TRUE
    /\ pc = "nut_text"
    /\ args \in {<<pg>> : pg \in NutritionPages}

NutritionFrame ==
    UNCHANGED <<siteVars, grid_waits, visitVars, scrollVars, file, CFG, importVars, run, pstep,
                localVars, data, ingredients, nutrition_json, DETAILS_CACHE, pending, orig,
                fetched, fetchRaised, rows, writerVars, sessionVars, histVars,
                args, returned, exit, error>>

\* lines 675-678
NutText ==
    /\ pc = "nut_text"
    /\ details' = [details EXCEPT !.nutrition = args[1].text]
    /\ pc' = IF not_nutrition(details'.nutrition) THEN "nut_json" ELSE "nut_result"
    /\ NutritionFrame

\* lines 679-708
NutJson ==
    /\ pc = "nut_json"
    /\ details' = [details EXCEPT !.nutrition = hunt_blobs(args[1].blobs, 1)]
    /\ pc' = IF not_nutrition(details'.nutrition) THEN "nut_table" ELSE "nut_result"
    /\ NutritionFrame

\* lines 709-713
NutTable ==
    /\ pc = "nut_table"
    /\ details' = IF args[1].table.found
                  THEN [details EXCEPT !.nutrition = args[1].table.parsed]
                  ELSE details
    /\ pc' = "nut_result"
    /\ NutritionFrame

\* line 715: the two members of the result
NutResult ==
    /\ pc = "nut_result"
    /\ Return(<<details.ingredients, details.nutrition>>)

NextNutrition == NutText \/ NutJson \/ NutTable \/ NutResult

SpecNutrition == InitNutrition /\ [][NextNutrition]_vars

(***************************************************************************)
(* edge_driver().__enter__ (lines 154-196) on its own.  args are HEADLESS, *)
(* headless_override ("None" when it is not given), what each launch of    *)
(* the browser does, in order, and the number of launches made so far.     *)
(***************************************************************************)
MaxLaunches == 3

\* line 157
headless_of(hl, override) == IF override = "None" THEN hl ELSE override = "True"

\* mutant: the second launch is made whatever the mode
fallback_always(headless) == TRUE

\* line 192
fallback_due(headless) == headless

InitLaunch ==
    /\ InitCall
    /\ pc = "build_first"
    /\ args \in BOOLEAN \X {"None", "True", "False"} \X
                 [1..MaxLaunches -> {"ok", "WebDriverException"}] \X {0}

LaunchFrame ==
    UNCHANGED <<siteVars, grid_waits, visitVars, scrollVars, file, CFG, importVars, run, pstep,
                localVars, detailVars, rows, writerVars, sessionVars, histVars>>

\* lines 188-194: build_driver(hless=headless) and the handler
BuildFirst ==
    /\ pc = "build_first"
    /\ args' = [args EXCEPT ![4] = @ + 1]
    /\ LET headless == headless_of(args[1], args[2])
       IN  IF args[3][args[4] + 1] = "ok"
           THEN /\ returned' = <<"driver", headless>>
                /\ pc' = "returned"
                /\ UNCHANGED <<exit, error>>
           ELSE IF fallback_due(headless)
                THEN /\ pc' = "build_second"
                     /\ UNCHANGED <<returned, exit, error>>
                ELSE /\ pc' = "returned"
                     /\ exit' = "crash" /\ error' = "WebDriverException"
                     /\ UNCHANGED returned
    /\ LaunchFrame

\* lines 194-195: build_driver(hless=False), outside any handler
BuildSecond ==
    /\ pc = "build_second"
    /\ args' = [args EXCEPT ![4] = @ + 1]
    /\ IF args[3][args[4] + 1] = "ok"
       THEN /\ returned' = <<"driver", FALSE>>
            /\ pc' = "returned"
            /\ UNCHANGED <<exit, error>>
       ELSE /\ pc' = "returned"
            /\ exit' = "crash" /\ error' = "WebDriverException"
            /\ UNCHANGED returned
    /\ LaunchFrame

NextLaunch == BuildFirst \/ BuildSecond

SpecLaunch == InitLaunch /\ [][NextLaunch]_vars

(***************************************************************************)
(* Properties.                                                             *)
(***************************************************************************)
Checkpointed == <<file.category, file.page>>

Filtered == pc \notin {"main", "discover", "filter"}

Matches == {i \in 1..Len(cats_all) : cats_all[i].name = RESUME_CATEGORY}

FirstMatch == CHOOSE i \in Matches : \A j \in Matches : i <= j

\* C1: while a page is open for extraction (opened, counted, its tiles read, its
\* rows written), the checkpoint on disk is {active: true, category, page} of
\* that very page: it was persisted before the page was opened.
C1_CheckpointBeforeExtraction ==
    pc \in ExtractPcs => file = Checkpoint("TRUE", cat_name, page)

C1_Witness ==
    /\ Running /\ pc = "tiles" /\ idx > 0 /\ rows # {}
    /\ page > 1 /\ file = Checkpoint("TRUE", cat_name, page)

\* C2, as claimed: between the first checkpoint write of a run and the end of the
\* crawl loop, the checkpoint names a page the orchestrator has entered (started)
\* and that page is not one whose extraction is complete.
C2_StartedNeverCompleted ==
    (Running /\ wrote /\ pc \in LoopPcs) =>
        (Checkpointed \in calls /\ Checkpointed \notin completed)

\* C2, amended: between the first checkpoint write of a run and the end of the
\* crawl loop, the checkpoint is active and names a page the orchestrator has
\* entered (or the starting page of a category it has entered), and every page
\* opened for extraction and not yet fully extracted is the page it names; the
\* page it names may be fully extracted.
C2_NamesThePageInProgress ==
    (Running /\ wrote /\ pc \in LoopPcs) =>
        /\ file.active = "TRUE"
        /\ Checkpointed \in calls
        /\ \A s \in started \ completed : s = Checkpointed

C2_Witness ==
    /\ Running /\ wrote /\ pc = "restart"
    /\ Checkpointed \in completed
    /\ started = completed

\* C3: the next invocation after a run has ended starts at the page the ended run
\* was at (page 1 of the first category when it had entered none), and when there
\* is such a page it does not finish without having opened one.
C3_NextRunResumesWhereItStopped ==
    run > 1 =>
        /\ firstOpened # Nowhere => firstOpened = resumeDue
        /\ (exit = "finished" /\ resumeDue # Nowhere) => firstOpened # Nowhere

\* C4: a step that delivers SIGINT leaves on disk the configuration as the
\* orchestrator last set it, with Resume_Active forced to TRUE, and ends the run:
\* no row is written and main does not move, then or later; the only step after
\* it is the next invocation.
C4_InterruptSavesAndStops ==
    [][/\ (exit = "running" /\ exit' = "interrupt") =>
            /\ file' = [CFG EXCEPT !.active = "TRUE"]
            /\ rows' = rows /\ pc' = pc /\ pstep' = pstep
       /\ exit = "interrupt" => (run' = run + 1 /\ file' = file /\ rows' = rows)]_vars

C4_Witness ==
    /\ exit = "interrupt" /\ pc = "page_persist" /\ pstep = 2
    /\ file = Checkpoint("TRUE", cat_name, CFG.page)

\* C5: the final reset is performed only after the crawl loop has gone through
\* every category without an exception or SIGINT; a run that returns from main
\* has performed it and leaves {active: false, category: "null", page: 0}; a run
\* cut short inside the loop has not, and leaves active = true.
C5_ResetOnlyOnCleanCompletion ==
    /\ resetDone =>
        /\ ~loopFailed /\ pc = "finished" /\ ci = Len(categories)
        /\ \A k \in 1..Len(categories) :
              <<categories[k].name, FirstPage(categories[k].name)>> \in calls
    /\ exit = "finished" => (resetDone /\ file = ResetCheckpoint)
    /\ loopFailed => (~resetDone /\ file.active = "TRUE")

C5_Witness ==
    /\ exit = "finished" /\ Len(categories) = 2 /\ rows # {}
    /\ file = ResetCheckpoint

\* C6: the category and the page on disk always come from one and the same
\* persist_resume call (or final reset) of this run, or are the ones the run
\* found at import.
C6_CheckpointNeverTorn ==
    Checkpointed \in calls \cup {<<RESUME_CATEGORY, RESUME_PAGE>>}

\* C7: with an active checkpoint naming a discovered category, filter_for_resume
\* returns the discovered list from the first category of that name on, in order;
\* with an inactive checkpoint it returns the discovered list.
C7_ResumeFilterSuffix ==
    (pc = "launch") =>
        /\ (RESUME_ACTIVE /\ Matches # {}) =>
              categories = SubSeq(cats_all, FirstMatch, Len(cats_all))
        /\ ~RESUME_ACTIVE => categories = cats_all

C7_Witness ==
    /\ pc = "launch" /\ RESUME_ACTIVE
    /\ Len(cats_all) = 3 /\ Matches = {2, 3}
    /\ categories = SubSeq(cats_all, 2, 3)
    /\ categories[1] # categories[2]

\* C8: with an active checkpoint naming no discovered category, filter_for_resume
\* returns the whole discovered list, so the crawl set of a non-empty list is not
\* empty.
C8_ResumeFilterFailsOpen ==
    (Filtered /\ RESUME_ACTIVE /\ Matches = {}) => categories = cats_all

\* C9: a page that still counts 0 tiles after the re-counts is left without a row
\* written and without an exception, with the page iterator on the next page (the
\* next step enters it, or leaves the category after the last page), possibly by
\* way of a hygiene restart; the tiles of a page are re-counted 2 times at most.
C9_EmptyPageAdvances ==
    /\ [](tries <= 2)
    /\ [][(Running /\ pc = "branch" /\ product_count = 0) =>
            /\ tries = 2
            /\ rows' = rows
            /\ exit' # "crash"
            /\ exit' = "running" =>
                  /\ pc' \in {"page_head", "restart"}
                  /\ page_it' = page + 1
                  /\ <<cat_name, page>> \in completed']_vars

C9_Witness ==
    /\ Running /\ pc = "page_persist" /\ page = 2
    /\ tries = 2 /\ product_count = 0 /\ rows = {}
    /\ <<cat_name, 1>> \in completed

\* C10: every row of the output has a non-empty name, item price, link and code,
\* and its best price and best unit price are those normalize_best_price gives for
\* its item price, unit price and promo text.
C10_RowsAreValidAndNormalized ==
    \A r \in rows :
        /\ r.name # << >> /\ r.item_price # << >> /\ r.link # << >> /\ r.code # << >>
        /\ LET norm == normalize_best_price(r.item_price, r.unit_price, r.promo)
           IN  r.best_price = norm[1] /\ r.best_unitprice = norm[2]

C10_Witness ==
    \E r \in rows : r.promo # << >> /\ r.best_price # r.item_price /\ r.code # << >>

\* the row of the tile in hand is in the file the writer appends to
RowWritten(row) ==
    IF out = "primary" THEN row \in rows' ELSE row \in altFiles'[run].rows

\* C11: when the detail fetch of a valid tile raises, the exception does not leave
\* main; the next step of main writes the row of that same tile, with empty
\* ingredients and empty nutrition, and the tile loop goes on with the next index
\* of the same page.
C11_FetchExceptionSwallowed ==
    /\ [](exit = "crash" => pc \notin FetchPcs)
    /\ []((pc = "write" /\ fetchRaised) => (ingredients = << >> /\ nutrition_json = << >>))
    /\ [][/\ (Running /\ pc \in FetchPcs /\ fetchRaised') =>
               (exit' = "running" /\ pc' = "write" /\ data' = data /\ idx' = idx /\ rows' = rows)
          /\ (pc = "write" /\ fetchRaised /\ pc' # pc) =>
               /\ RowWritten(RowOf(cat_name, data, << >>, << >>))
               /\ pc' = "tiles" /\ idx' = idx + 1
               /\ product_count' = product_count /\ page' = page /\ ci' = ci]_vars

C11_Witness ==
    /\ Running /\ pc = "tiles" /\ idx = 2 /\ driver = "live"
    /\ Len(fetched) = 1
    /\ \E r \in rows : r.link # fetched[1] /\ r.ingredients = << >> /\ r.nutrition_json = << >>
    /\ \E r \in rows : r.link = fetched[1] /\ r.nutrition_json # << >>

\* C12: an exception of the browsing session raised while a page is opened or
\* its tiles are counted does not leave main.
C12_PageFailureContained ==
    (pc \in {"page_open", "count", "recount"} /\ error = "WebDriverException") => exit # "crash"

\* C13: once a link has been fetched with success in this run, a later call for it
\* opens no context, navigates nowhere and returns the record stored for it; no
\* link is fetched with success twice.
C13_DetailCache ==
    /\ [](\A i, j \in 1..Len(fetched) : i # j => fetched[i] # fetched[j])
    /\ [](Range(fetched) = DOMAIN DETAILS_CACHE)
    /\ [][(Running /\ exit' = "running" /\ pc = "fetch" /\ data.link \in Range(fetched)) =>
              /\ pc' = "write"
              /\ windows' = windows /\ current' = current /\ fetched' = fetched
              /\ DETAILS_CACHE' = DETAILS_CACHE
              /\ details' = DETAILS_CACHE[data.link]
              /\ ingredients' = ingredients_of(DETAILS_CACHE[data.link])
              /\ nutrition_json' = nutrition_json_of(DETAILS_CACHE[data.link])]_vars

C13_Witness ==
    /\ Running /\ pc = "write" /\ idx = 1 /\ ~fetchRaised
    /\ fetched = <<data.link>>
    /\ ingredients # << >>
    /\ \E r \in rows : r.link = data.link /\ r.ingredients = ingredients

\* C14: whenever main has control (it is not inside the try block of
\* fetch_details_for_link), no secondary context is open, and the session, when
\* it is alive, is switched to the original context.
C14_SecondaryContextClosed ==
    pc \notin TryPcs =>
        /\ "tab" \notin windows
        /\ driver = "live" => (current = "main" /\ windows = {"main"})

C14_Witness ==
    /\ Running /\ pc = "write" /\ fetchRaised /\ page = 1 /\ idx = 0 /\ restarts = 0
    /\ orig = "main" /\ driver = "live" /\ current = "main" /\ windows = {"main"}

\* C15: at most one browser session is alive at any moment of a run.
C15_OneSessionAtATime == sessions <= 1

C15_Witness ==
    /\ Running /\ pc = "tiles" /\ restarts = 1 /\ sessions = 1 /\ driver = "live"

\* C16: the number of hygiene restarts of a run is the number of pages it has
\* processed (pages that stayed empty included, across categories) divided by
\* RESTART_EVERY_PAGES, the restart being due while main is at it; so a restart
\* happens when that number becomes a multiple of RESTART_EVERY_PAGES and only
\* then.
C16_RestartEveryNPages ==
    /\ restarts = (Cardinality(completed) \div RESTART_EVERY_PAGES)
                    - (IF pc = "restart" THEN 1 ELSE 0)
    /\ pc = "restart" =>
          (completed # {} /\ Cardinality(completed) % RESTART_EVERY_PAGES = 0)

C16_Witness ==
    /\ Running /\ pc = "page_head" /\ restarts = 1
    /\ completed = {<<"A", 1>>, <<"B", 1>>}
    /\ product_count = 0 /\ tries = 2 /\ rows # {}

\* C17: the writer appends to the alternate file exactly when all max_retries
\* attempts on the primary file failed; the alternate file then holds one header
\* row, every row of the run is appended to it, and the primary file is left as
\* it was.
C17_AlternateFile ==
    /\ []((out = "alt") = (attempt = max_retries /\ pc # "open_csv"))
    /\ [](out = "alt" => altFiles[run].headers = 1)
    /\ [][out = "alt" =>
              /\ rows' = rows /\ headers' = headers
              /\ altFiles'[run].headers = altFiles[run].headers
              /\ (pc = "write" /\ pc' # pc) =>
                    altFiles'[run].rows =
                        altFiles[run].rows \cup {RowOf(cat_name, data, ingredients, nutrition_json)}]_vars

C17_Witness ==
    /\ exit = "finished" /\ out = "alt"
    /\ altFiles[run].rows # {} /\ altFiles[run].headers = 1
    /\ rows # {} /\ rows # altFiles[run].rows

\* C18: no failure to open the primary or the alternate output file, and no
\* failure to append a row, leaves main as an exception.
C18_WriteFailureNeverAborts ==
    exit = "crash" => pc \notin {"open_csv", "write"}

\* C19: when the category-menu control does not appear within the wait, no
\* exception leaves main: the run ends as one that found no category.
C19_MissingMenuExitsQuietly ==
    (pc = "discover" /\ error = "TimeoutException") => exit # "crash"

\* the pages of the site from page pg of category c on, in crawl order
PagesFrom(c, pg) ==
    {<<site[k], q>> : k \in {j \in 1..Len(site) : \E i \in 1..j : site[i] = c}, q \in 1..MaxPages}
        \cap {x \in CatNames \X (1..MaxPages) :
                 /\ x[1] \in Range(site)
                 /\ x[2] <= sitePages[x[1]]
                 /\ x[1] = c => x[2] >= pg}

\* C20: a run that follows one ended inside the extraction of page P of category
\* C, and that completes, has crawled the categories from C on, has opened P of C
\* first, and has processed P and every later page of the site.
C20_ResumedRunCoversFromCheckpoint ==
    (run > 1 /\ midPage /\ exit = "finished") =>
        /\ firstOpened = resumeDue
        /\ \E k \in 1..Len(cats_all) :
              cats_all[k].name = resumeDue[1] /\ categories = SubSeq(cats_all, k, Len(cats_all))
        /\ PagesFrom(resumeDue[1], resumeDue[2]) \subseteq completed

(***************************************************************************)
(* Properties of normalize_best_price (SpecNormalize).                     *)
(***************************************************************************)
\* the promo text carries a "was" / "range was" marker
HasWasMarker(p) == contains(p, STR_RANGE_WAS) \/ contains(p, STR_WAS)

\* the promo text carries a member price or an "N for $M" offer
HasOfferPattern(p) == contains(p, STR_MEMBER_PRICE) \/ contains(p, STR_FOR)

\* C21: for a promo text that is empty, or that carries neither a "was" marker
\* nor a member-price / "N for $M" pattern, normalize_best_price returns the
\* item price and the unit price it was given, and no former price.
C21_PlainPromoUnchanged ==
    (pc = "returned" /\ ~HasWasMarker(args[3]) /\ ~HasOfferPattern(args[3])) =>
        returned = <<args[1], args[2], None>>

C21_Witness ==
    /\ pc = "returned" /\ args[3] = PROMO_SAVE
    /\ returned = <<args[1], args[2], None>>

\* the conversion of the quantity or of the total of the offer raises
ParseFails(p) ==
    /\ HasOfferPattern(p)
    /\ best_of(<< >>, << >>, strip(replace(p, STR_MEMBER_PRICE, << >>))) \in Exceptions

\* C22: no exception leaves normalize_best_price, whatever the three texts; when
\* the quantity or the total of the offer cannot be converted, the best price and
\* the best unit price returned are the item price and unit price given.
C22_NeverRaises ==
    /\ error = "none" /\ exit = "running"
    /\ (pc = "returned" /\ ParseFails(args[3])) =>
           (returned[1] = args[1] /\ returned[2] = args[2])

C22_Witness ==
    /\ pc = "returned" /\ args[3] \in {PROMO_NO_TOTAL, PROMO_SUPERSCRIPT}
    /\ ParseFails(args[3])
    /\ error = "none" /\ returned = <<args[1], args[2], None>>

\* C23: for item price "$12.00", unit price "$3.00/ea" and promo text "Member
\* Price $10 for 4 - $2.50 ea" the best price is "$2.5" (10 / 4) and the best unit
\* price is "$2.50 ea".
C23_MemberPriceExample ==
    (pc = "returned" /\ args = <<<<"$", "1", "2", ".", "0", "0">>,
                                 <<"$", "3", ".", "0", "0", "/", "e", "a">>,
                                 PROMO_MEMBER_M_FOR_N>>) =>
        /\ returned[1] = <<"$", "2", ".", "5">>
        /\ returned[2] = <<"$", "2", ".", "5", "0", " ", "e", "a">>

(***************************************************************************)
(* Properties of parse_ingredients_from_text (SpecIngredients).            *)
(***************************************************************************)
\* C24: for the text "Ingredients: wheat, salt" followed by the line "Allergen:
\* contains gluten", the ingredients extracted are exactly "wheat, salt": the
\* content on the line of the heading is kept and the slice ends before the
\* heading of the next section.
C24_SameLineIngredients ==
    (pc = "returned" /\ args[1] = <<"I", "n", "g", "r", "e", "d", "i", "e", "n", "t", "s", ":", " ",
                                    "w", "h", "e", "a", "t", ",", " ", "s", "a", "l", "t", "\n",
                                    "A", "l", "l", "e", "r", "g", "e", "n", ":", " ",
                                    "c", "o", "n", "t", "a", "i", "n", "s", " ",
                                    "g", "l", "u", "t", "e", "n">>) =>
        returned = <<"w", "h", "e", "a", "t", ",", " ", "s", "a", "l", "t">>

\* C25: a run comes to its end: the re-counts of an empty grid, the turns of the
\* scroll loop and of the expand loop and the attempts to open the output file
\* never exceed their limits, and the process eventually ends, by the end of
\* main, by an exception or by exit.
C25_RunTerminates ==
    /\ [](/\ tries <= 2
          /\ loops <= max_loops
          /\ expand_it <= expand_turns
          /\ attempt <= max_retries)
    /\ <>(~Running)

C25_Witness ==
    /\ exit = "finished" /\ out = "alt" /\ attempt = max_retries
    /\ fetched # << >> /\ rows = {}

(***************************************************************************)
(* Properties of the page loop, the rows and the output file.              *)
(***************************************************************************)
\* the pages of category c among the <<category, page>> pairs of S
PagesOf(S, c) == {x[2] : x \in {y \in S : y[1] = c}}

\* the page at which the checkpoint read at import has category c start
CheckpointPage(c) == IF RESUME_ACTIVE /\ RESUME_CATEGORY = c THEN RESUME_PAGE ELSE 1

\* C26: in each category crawled, the first page opened for extraction is the
\* page of the checkpoint when the checkpoint is active and names the category,
\* and page 1 otherwise; each page opened after it is the next one, none beyond
\* the total of the category; and when the category is left, the pages
\* extracted are those from the first to the total, none when the first exceeds
\* the total.
C26_PagesInOrder ==
    /\ [](pc = "nap" =>
            PagesOf(completed, cat_name) = CheckpointPage(cat_name)..total_pages)
    /\ [][(pc = "page_open" /\ pc' = "count") =>
             LET opened == PagesOf(started, cat_name)
             IN  /\ page <= total_pages
                 /\ page \notin opened
                 /\ IF opened = {} THEN page = CheckpointPage(cat_name)
                    ELSE \A p \in opened : p < page /\ (p = page - 1 \/ p + 1 \in opened)]_vars

C26_Witness ==
    /\ Running /\ pc = "nap"
    /\ RESUME_ACTIVE /\ RESUME_CATEGORY = cat_name /\ RESUME_PAGE = 2 /\ total_pages = 2
    /\ PagesOf(started, cat_name) = {2}
    /\ PagesOf(completed, cat_name) = {2}

\* a tile with a name, an item price, a link and a product code
HasAllFour(t) == t.name # << >> /\ t.price # << >> /\ t.link # << >> /\ t.code # << >>

\* the column of the header that each field of a row stands under
ColumnOfField ==
    [code |-> "Product Code", category |-> "Category", name |-> "Item Name",
     best_price |-> "Best Price", best_unitprice |-> "Best Unit Price",
     item_price |-> "Item Price", unit_price |-> "Unit Price",
     price_was |-> "Price Was", special |-> "Special Text",
     promo |-> "Complex Promo Text", link |-> "Link",
     ingredients |-> "Ingredients", nutrition_json |-> "NutritionJSON"]

\* the output file the writer of this run appends to
OutRows == IF out = "primary" THEN rows ELSE altFiles[run].rows

\* C27: during a page visit with product_count tiles counted, the tiles are read
\* at the indices 0..product_count-1 in turn and the rows written so far are
\* the rows of the tiles read so far that have a name, a price, a link and a
\* code, one row each and in the order they were read; a row has the 13 fields,
\* listed in the order of the columns of the header; and no step removes a row
\* from a file or takes back a row written by the visit.
C27_RowsOfVisit ==
    /\ [](followed /\ pc \in {"tiles", "write", "page_done"} =>
            LET valid == SelectSeq(seen, HasAllFour)
                due == IF pc = "write" THEN Len(valid) - 1 ELSE Len(valid)
            IN  /\ Len(seen) = IF pc = "write" THEN idx + 1 ELSE idx
                /\ idx <= product_count
                /\ pc = "page_done" => idx = product_count
                /\ Len(appended) = due
                /\ \A i \in 1..due :
                      /\ appended[i] = RowOf(cat_name, valid[i], << >>, << >>)
                      /\ DOMAIN appended[i] = Range(row_columns)
                      /\ appended[i] \in OutRows
                /\ Len(row_columns) = 13 /\ Len(CSV_HEADER) = 13
                /\ \A c \in 1..13 : ColumnOfField[row_columns[c]] = CSV_HEADER[c])
    /\ [][/\ rows \subseteq rows'
          /\ \A r \in 1..MaxRuns : altFiles[r].rows \subseteq altFiles'[r].rows
          /\ \/ appended' = appended
             \/ appended' = << >>
             \/ Len(appended') = Len(appended) + 1 /\ SubSeq(appended', 1, Len(appended)) = appended]_vars

\* a second page whose first tile is skipped and whose second tile is written
\* after the rows of the first page
C27_Witness ==
    /\ followed /\ pc = "page_done" /\ page = 2 /\ product_count = 2
    /\ ~HasAllFour(seen[1]) /\ seen[1] # NoTile /\ HasAllFour(seen[2])
    /\ Len(appended) = 1
    /\ OutRows \ Range(appended) # {}

\* what a run does to the site, the checkpoint and the output, and the locals
\* that decide it: everything but the session in use, the count of pages since
\* the last restart and the position of main
Crawl ==
    <<file, CFG, rows, altFiles, headers, out, started, completed, firstOpened, calls,
      wrote, resetDone, cats_all, categories, ci, total_pages, first_page, page,
      page_it, tries, product_count, idx, data, ingredients, nutrition_json,
      DETAILS_CACHE, fetched, details, run, exit, error>>

\* where main goes on from position p once a restart that is due there is done
Onward(p) == IF p = "restart" THEN "page_head" ELSE p

\* C28: the hygiene restart is invisible to the crawl: the step that ends a page
\* visit records the page as done and leads to the head of the page loop,
\* directly or through a restart, whatever the count of pages since the last
\* restart, and a restart changes nothing of the crawl (checkpoint, pages opened,
\* positions persisted, rows, loop variables): only the session in use.
C28_RestartInvisible ==
    /\ [][(Running /\ pc = "restart" /\ pc' # pc /\ exit' = "running") =>
             (/\ pc' = "page_head"
              /\ Crawl' = Crawl
              /\ driver' = "live" /\ restarts' = restarts + 1)]_vars
    /\ [][(/\ Running /\ exit' = "running"
           /\ \/ pc = "page_done" /\ pc' # pc
              \/ pc = "branch" /\ pc' \notin {pc, "tiles"}) =>
             /\ Onward(pc') = "page_head"
             /\ completed' = completed \cup {<<cat_name, page>>}
             /\ <<file, CFG, rows, altFiles, started, calls, categories, ci, total_pages,
                  first_page, page, page_it>>' =
                <<file, CFG, rows, altFiles, started, calls, categories, ci, total_pages,
                  first_page, page, page_it>>
             /\ sessionVars' = sessionVars]_vars

\* a run that has restarted its browser is writing a row of the second category
C28_Witness ==
    /\ Running /\ restarts = 1 /\ pc = "write" /\ ci = 2 /\ page = 1
    /\ rows # {} /\ driver = "live"

\* C29: the primary output file gets its header row on the open that creates
\* it and on no other: a primary file that exists and is not just being opened
\* holds exactly one header row, written before any row of data, and an open of
\* an existing file leaves the header count unchanged.
C29_OneHeaderRow ==
    /\ [](exists /\ pc # "csv_header" => headers = 1)
    /\ [](rows # {} => headers = 1)
    /\ [][headers' # headers => headers = 0 /\ rows = {} /\ headers' = 1]_vars

\* C30: the open of the primary path is attempted at most max_retries times;
\* the run has waited once per failed attempt, backoff_start * 2^k after the
\* failure number k (counted from 0), each wait twice the one before; the
\* attempt that finds the file free is the last one and leads to the primary
\* file, and the alternate file is used only after max_retries failures.
C30_RetryBackoff ==
    /\ [](/\ attempt <= max_retries
          /\ Len(slept) = attempt
          /\ \A k \in 0..(Len(slept) - 1) : slept[k + 1] = 400 * (2 ^ k)
          /\ \A k \in 2..Len(slept) : slept[k] = 2 * slept[k - 1]
          /\ out = "primary" => attempt < max_retries
          /\ out = "alt" => attempt = max_retries
          /\ pc = "csv_header" => attempt < max_retries)
    /\ [][(Running /\ exit' = "running" /\ pc = "open_csv" /\ ~locked /\ attempt < max_retries
             /\ <<pc, attempt, out>>' # <<pc, attempt, out>>) =>
            (pc' = "csv_header" /\ attempt' = attempt /\ slept' = slept)]_vars
    /\ [][(pc = "csv_header" /\ pc' # pc /\ exit' = "running") =>
            (out' = "primary" /\ attempt' = attempt /\ slept' = slept)]_vars

\* the primary file is opened at the fourth attempt, after three waits
C30_Witness ==
    /\ out = "primary" /\ attempt = 3
    /\ slept = <<400, 800, 1600>>

\* the number a text of decimal digits writes
RECURSIVE ShownNumber(_, _)
ShownNumber(t, i) ==
    IF i > Len(t) THEN 0 ELSE DigitValue(t[i]) * Pow10(Len(t) - i) + ShownNumber(t, i + 1)

\* the text, blanks at its ends aside, is made of the digits 0-9
ShowsNumber(ind) ==
    /\ ind # TimeoutException
    /\ strip(ind) # << >>
    /\ \A i \in 1..Len(strip(ind)) : strip(ind)[i] \in {"0", "1", "2", "3", "4", "5", "6", "7", "8", "9"}

\* C31: whether the grid appeared in time or not, open_category_page raises
\* nothing, and get_total_pages then returns the number the indicator shows
\* when its text is all digits, and 1 when the indicator did not appear in
\* time or its text is not a number; no exception ends the call.
C31_PageCountFallback ==
    /\ exit = "running" /\ error = "none"
    /\ pc = "returned" =>
          returned = IF ShowsNumber(args[2])
                     THEN <<"int", ShownNumber(strip(args[2]), 1)>>
                     ELSE <<"int", 1>>

\* the grid timed out and the indicator shows the digit two in superscript
C31_Witness ==
    /\ pc = "returned" /\ args = <<"timeout", <<"1", SuperscriptTwo>>>>
    /\ returned = <<"int", 1>>

\* C32: on a page that shows no tile, the wait before the second re-count is
\* strictly longer than the wait before the first.
C32_IncreasingDelay ==
    Len(grid_waits) >= 2 => grid_waits[2] > grid_waits[1]

\* C33: for a promo text with a "Was " or "Range was " marker, the price_was
\* that normalize_best_price returns is null or a text that starts with "$".
C33_PriceWasNullOrAmount ==
    (pc = "returned" /\ HasWasMarker(args[3])) =>
        \/ returned[3] = None
        \/ returned[3] # << >> /\ returned[3][1] = "$"

\* blob number i of the page holds a non-empty nutrition dict
BlobHit(pg, i) == pg.blobs[i].kind = "dict" /\ pg.blobs[i].nut # << >>

\* C34: with nutrition enabled the strategies run in the order text, metadata,
\* table: the metadata scan starts only after the text gave nothing, the table
\* walk only after the text and every blob gave nothing, and the nutrition of
\* the result is the table of the text when it is not empty, else the first
\* non-empty dict of the blobs under the single key "raw", else what the table
\* walk gives (nothing when the page has no table).
C34_FirstStrategyWins ==
    /\ [][(pc' = "nut_json" /\ pc # "nut_json") =>
             (pc = "nut_text" /\ args[1].text = << >>)]_vars
    /\ [][(pc' = "nut_table" /\ pc # "nut_table") =>
             (/\ pc = "nut_json" /\ args[1].text = << >>
              /\ \A i \in 1..Len(args[1].blobs) : ~BlobHit(args[1], i))]_vars
    /\ [](pc = "returned" =>
            LET pg == args[1]
                hits == {i \in 1..Len(pg.blobs) : BlobHit(pg, i)}
            IN  returned[2] =
                  IF pg.text # << >> THEN pg.text
                  ELSE IF hits # {}
                       THEN <<[key |-> <<"r", "a", "w">>,
                               value |-> pg.blobs[CHOOSE i \in hits : \A j \in hits : i <= j].nut]>>
                       ELSE IF pg.table.found THEN pg.table.parsed ELSE << >>)

\* the text gave nothing, the first blob is no dict, the second blob is a hit
\* and the page has a table too
C34_Witness ==
    /\ pc = "returned" /\ args[1].text = << >>
    /\ Len(args[1].blobs) = 2 /\ args[1].blobs[1].kind = "text" /\ BlobHit(args[1], 2)
    /\ args[1].table.parsed # << >>
    /\ returned[2] = <<[key |-> <<"r", "a", "w">>, value |-> args[1].blobs[2].nut]>>

\* C35: creating a session launches the browser at most twice; a second launch
\* is made only after a headless launch has failed and is non-headless, and its
\* failure leaves the call as an exception; a failed launch in non-headless
\* mode leaves the call as an exception at once.
C35_OneFallbackLaunch ==
    LET headless == IF args[2] = "None" THEN args[1] ELSE args[2] = "True"
        failed(k) == args[3][k] = "WebDriverException"
    IN  /\ args[4] <= 2
        /\ args[4] = 2 => headless /\ failed(1)
        /\ pc = "returned" =>
              /\ (headless /\ failed(1)) =>
                    /\ args[4] = 2
                    /\ IF failed(2) THEN exit = "crash" /\ error = "WebDriverException"
                       ELSE exit = "running" /\ returned = <<"driver", FALSE>>
              /\ (~headless /\ failed(1)) =>
                    args[4] = 1 /\ exit = "crash" /\ error = "WebDriverException"
              /\ ~failed(1) =>
                    args[4] = 1 /\ exit = "running" /\ returned = <<"driver", headless>>

\* the headless launch and the non-headless launch that followed it both failed
C35_Witness ==
    /\ pc = "returned" /\ args[1] = TRUE /\ args[2] = "None" /\ args[4] = 2
    /\ args[3][1] = "WebDriverException" /\ args[3][2] = "WebDriverException"
    /\ exit = "crash"

\* C36: a run that finds the save directory not writable ends with
\* PermissionError at the start of main: it has created no browsing session,
\* has not opened or created an output file, has written no checkpoint, and the
\* step that ends it changes neither the checkpoint nor the output.
C36_UnwritableDirAborts ==
    /\ [](error = "PermissionError" =>
            /\ exit = "crash" /\ pc = "main"
            /\ sessions = 0 /\ driver = "none" /\ restarts = 0
            /\ out = "none" /\ attempt = 0 /\ ~is_new /\ altFiles[run] = NoAltFile
            /\ ~wrote /\ calls = {} /\ started = {} /\ file = CFG)
    /\ [][error' = "PermissionError" =>
            (file' = file /\ rows' = rows /\ headers' = headers /\ exists' = exists
             /\ altFiles' = altFiles)]_vars

\* the second run is aborted with the checkpoint of the first still in place
C36_Witness ==
    /\ error = "PermissionError" /\ run = 2
    /\ file.active = "TRUE" /\ file.category = "A" /\ file.page = 2
    /\ rows # {}

(***************************************************************************)
(* The checkpoints of one run, in the order of the persist_resume calls.   *)
(***************************************************************************)
\* the checkpoint a is not after the checkpoint b: an earlier category of
\* the crawl list, or the same category and no later page
NotAfter(a, b) == a[1] < b[1] \/ (a[1] = b[1] /\ a[2] <= b[2])

\* C37: within one run the persist_resume calls of main (lines 786 and 793)
\* are made in order: the pair (place of the category in the crawl list,
\* page) of a call is never before the pair of the call made before it, and
\* every call passes active = True.
C37_MonotonicCheckpoints ==
    /\ \A i \in 1..Len(persisted) : persisted[i][3] = TRUE
    /\ \A i \in 1..(Len(persisted) - 1) : NotAfter(persisted[i], persisted[i + 1])

\* a resumed run has persisted a page after the first of the resume
\* category, restarted its session, and gone on to the next category
C37_Witness ==
    /\ RESUME_ACTIVE /\ RESUME_PAGE = 2 /\ restarts > 0
    /\ Len(persisted) >= 4
    /\ persisted[1] = <<1, 2, TRUE>>
    /\ persisted[Len(persisted)][1] = 2

\* C38: fetch_details_for_link changes the detail cache in one way only: a
\* call that returns normally for a non-empty link it did not find in the
\* cache has added the record it returns under that link, a record with no
\* ingredients and no nutrition included, and has left every other entry as
\* it was.  A call that raises leaves the cache as it found it, so the link
\* is not in it and the next call for the link opens the product page again;
\* a call with an empty link returns at once and adds nothing.
C38_CacheFrame ==
    /\ [][DETAILS_CACHE' # DETAILS_CACHE =>
            /\ pc = "fd_parse" /\ pending' = "return"
            /\ data.link # << >> /\ data.link \notin DOMAIN DETAILS_CACHE
            /\ DOMAIN DETAILS_CACHE' = DOMAIN DETAILS_CACHE \cup {data.link}
            /\ \A u \in DOMAIN DETAILS_CACHE : DETAILS_CACHE'[u] = DETAILS_CACHE[u]]_vars
    /\ [][(pc = "fd_finally" /\ pending = "return" /\ pc' = "write") =>
            /\ data.link \in DOMAIN DETAILS_CACHE'
            /\ DETAILS_CACHE'[data.link] = details'
            /\ ~fetchRaised']_vars
    /\ [][(pc \in FetchPcs /\ ~fetchRaised /\ fetchRaised') =>
            /\ DETAILS_CACHE' = DETAILS_CACHE
            /\ data.link \notin DOMAIN DETAILS_CACHE']_vars
    /\ [][(pc = "fetch" /\ exit' = "running" /\ data.link # << >>
              /\ data.link \notin DOMAIN DETAILS_CACHE) =>
            pc' = "fd_open"]_vars
    /\ [][(pc = "fetch" /\ exit' = "running" /\ data.link = << >>) =>
            (pc' = "write" /\ DETAILS_CACHE' = DETAILS_CACHE /\ details' = NoDetails)]_vars

\* the second call, for a link, has raised; the first one had cached a record
\* with nothing in it for another link, next to the record the cache held
C38_Witness ==
    /\ pc = "write" /\ idx = 1 /\ fetchRaised /\ data.link # << >>
    /\ Len(fetched) = 2 /\ fetched[2] # data.link
    /\ DETAILS_CACHE[fetched[1]] # NoDetails
    /\ DETAILS_CACHE[fetched[2]] = NoDetails
    /\ DOMAIN DETAILS_CACHE = {fetched[1], fetched[2]}

\* C39: a run that has opened the output file (open_csv_writer_with_retry has
\* returned its handle to main) and has ended, by normal completion, an empty
\* category list, an exception or an interrupt, has closed the file.
C39_OutputClosedOnExit ==
    (~Running /\ out # "none") => closed

\* what the code does: the file is closed when main returns or when it is
\* left from inside the try block of the crawl loop (lines 781-865), and
\* left open when it is left before the try or at the start of the finally
C39_ClosedWhereCovered ==
    (~Running /\ out # "none") =>
        (closed <=> (exit \in {"finished", "nocats"} \/ pc \in (LoopPcs \cup {"reset", "finished"})))

C39_LeftOpen ==
    /\ exit = "crash" /\ pc = "launch" /\ out = "primary" /\ ~closed
    /\ cats_all # << >>


=============================================================================
